---- MODULE Spec2Model ----
(***************************************************************************)
(* The probe-session manager of pika (package websocket): the Manager with *)
(* its supervisor loop Run, the request queues register / unregister /     *)
(* broadcast, the session table, and per session (Client) the send queue,  *)
(* the one-shot close guard, the socket, and the read and write loops.     *)
(***************************************************************************)
EXTENDS Integers, Sequences, FiniteSets, TLC

\* Three Client objects; A1 and A2 are two connections of the same probe.
Sessions == {"A1", "A2", "B1"}
ProbeIds == {"pA", "pB"}
Frames == {"f1"}
None == "none"

\* Client.ID
ID(c) == IF c = "B1" THEN "pB" ELSE "pA"

\* Channel capacities, scaled down (10, 10, 256 and 256 in the source).
RegisterCap == 1
UnregisterCap == 1
BroadcastCap == 1
SendCap == 1

\* 2 * time.Minute, in seconds
Timeout == 120
\* c.Conn.SetReadDeadline(time.Now().Add(60 * time.Second)), in seconds
ReadDeadline == 60
\* time.NewTicker(30 * time.Second), in seconds
TickPeriod == 30
\* Granularity of the modelled clock, in seconds
TimeStep == TickPeriod
MaxIdle == Timeout + TimeStep

\* What the environment does in a run: the connections the probes open (live),
\* whether the run is long enough for sessions to age (timed), whether
\* SendToClient is called (sends), whether the context is cancelled (cancels)
\* and whether frames that do not decode or that the message handler rejects
\* arrive (faults).
Scenarios ==
    { [live |-> Sessions, timed |-> FALSE, sends |-> FALSE, cancels |-> FALSE,
       faults |-> FALSE],
      [live |-> {"A1", "A2"}, timed |-> TRUE, sends |-> FALSE, cancels |-> FALSE,
       faults |-> FALSE],
      [live |-> {"A1", "A2"}, timed |-> FALSE, sends |-> TRUE, cancels |-> TRUE,
       faults |-> FALSE],
      [live |-> {"A1"}, timed |-> TRUE, sends |-> FALSE, cancels |-> FALSE,
       faults |-> TRUE] }

VARIABLES
    clients,     \* Manager.clients: the sessions the table holds, one per key
    register,    \* Manager.register channel
    unregister,  \* Manager.unregister channel
    broadcast,   \* Manager.broadcast channel
    mgrPc,       \* Manager.Run: "select", "tick" (in checkInactiveClients), "stopped"
    inactive,    \* checkInactiveClients: inactiveClients still to be handled
    evicting,    \* checkInactiveClients: the client whose unregister send is pending
    ctxDone,     \* the server-level context is cancelled
    pc,          \* per session: the connection goroutine (handler, then ReadPump)
    wpc,         \* per session: the WritePump goroutine
    Send,        \* Client.Send: buffered frames
    sendClosed,  \* Client.Send has been closed
    closed,      \* Client.closed
    closeCalls,  \* number of closeChannel calls on the session (saturates at 2)
    connClosed,  \* Client.Conn has been closed
    idle,        \* time.Since(Client.LastActive), in seconds (saturates at MaxIdle)
    sendTo,      \* the SendToClient call in progress
    result,      \* the value the last SendToClient call returned
    crashed,     \* the run-time panic that ended the process, or "none"
    env,         \* what the environment does in this run, one of Scenarios
    frame        \* ReadPump: the session and the outcome of the latest read

\* The alert evaluator
VARIABLES
    clock,          \* the time of the latest evaluation
    rule,           \* the alert rule: its duration and the probes it is active for
    alertStates,    \* AlertState per (probe, rule, kind), or NoState
    alertRecords,   \* the alert_records table: AlertRecord by ID, 1..Len
    notifications,  \* the Notifier invocations made so far
    breachSince,    \* per key: since when every evaluation saw a breach, or NoTime
    shortBreach     \* the keys that had a breach end before it fired

evalVars == <<clock, rule, alertStates, alertRecords, notifications, breachSince,
              shortBreach>>

\* The notifier: one SendNotification call
VARIABLES
    notification,   \* AlertConfig.Notification: per sink, enabled and webhook
    responses,      \* per sink: what the POST to it ran into
    posts,          \* per sink: the number of client.Do calls made for it
    sendResult      \* what SendNotification returned: "none" before, "nil", "error"

notifyVars == <<notification, responses, posts, sendResult>>

\* The metric tables and one DeleteOldMetrics call
VARIABLES
    metricTables,   \* per table: the number of rows with each timestamp
    sweep           \* DeleteOldMetrics: its position

sweepVars == <<metricTables, sweep>>

\* The host_metrics table and the SaveHostMetric calls
VARIABLES
    hostMetrics,    \* the committed rows of the host_metrics table
    lastSaved,      \* per probe: the snapshot of the last call that returned nil
    saves,          \* the number of SaveHostMetric calls so far
    hostTx          \* the transaction of the SaveHostMetric call in progress

hostVars == <<hostMetrics, lastSaved, saves, hostTx>>

\* The calls of the converter, of the risk score, of the lookup of the latest
\* alert record and of the grouping of the migration, and the migration command
VARIABLES
    conv,           \* convertToMetrics: the arguments of the call and what it returned
    audit,          \* calculateRiskScore: the checks and the score and level set
    lookup,         \* GetLatestAlertRecord: the table, the arguments, the result
    grouping,       \* the rows of one batch and the samples built from their groups
    migration       \* the migration command: its position, the tables, its result

laterVars == <<conv, audit, lookup, grouping, migration>>

otherVars == <<evalVars, notifyVars, sweepVars, hostVars, laterVars>>

managerVars == <<clients, register, unregister, broadcast, mgrPc, inactive,
                 evicting, ctxDone, pc, wpc, Send, sendClosed, closed,
                 closeCalls, connClosed, idle, sendTo, result, crashed, env,
                 frame>>

vars == <<managerVars, otherVars>>

mgrVars == <<mgrPc, inactive, evicting>>
sessVars == <<pc, wpc, Send, sendClosed, closed, closeCalls, connClosed, idle>>
callVars == <<sendTo, result>>

Min(a, b) == IF a < b THEN a ELSE b

\* A panic ends the process: no goroutine takes another step
Running == crashed = "none"

TypeOK ==
    /\ clients \subseteq Sessions
    /\ mgrPc \in {"select", "tick", "stopped"}
    /\ inactive \subseteq Sessions
    /\ evicting \in Sessions \cup {None}
    /\ ctxDone \in BOOLEAN
    /\ pc \in [Sessions -> {"new", "registering", "reading", "unregistering", "done"}]
    /\ wpc \in [Sessions -> {"off", "run", "done"}]
    /\ \A c \in Sessions : Len(Send[c]) <= SendCap
    /\ result \in {"none", "ok", "not_found", "queue_full"}

\* NewManager; no connection accepted yet
Start ==
    /\ clients = {}
    /\ register = <<>>
    /\ unregister = <<>>
    /\ broadcast = <<>>
    /\ mgrPc = "select"
    /\ inactive = {}
    /\ evicting = None
    /\ ctxDone = FALSE
    /\ pc = [c \in Sessions |-> "new"]
    /\ wpc = [c \in Sessions |-> "off"]
    /\ Send = [c \in Sessions |-> <<>>]
    /\ sendClosed = [c \in Sessions |-> FALSE]
    /\ closed = [c \in Sessions |-> FALSE]
    /\ closeCalls = [c \in Sessions |-> 0]
    /\ connClosed = [c \in Sessions |-> FALSE]
    /\ idle = [c \in Sessions |-> 0]
    /\ sendTo = [pc |-> "idle", client |-> None, msg |-> None]
    /\ result = "none"
    /\ crashed = "none"
    /\ frame = [client |-> None, outcome |-> "none"]

\* The keys (probe, rule, kind) the evaluator keeps a state for: one cpu rule,
\* two probes
Keys == {"p1", "p2"}

\* The evaluator before its first evaluation: no state, no record
EvalStart ==
    /\ clock = 0
    /\ alertStates = [k \in Keys |-> [StartTime |-> 0 - 1, IsFiring |-> FALSE,
                                       LastRecordID |-> 0]]
    /\ alertRecords = <<>>
    /\ notifications = <<>>
    /\ breachSince = [k \in Keys |-> 0 - 1]
    /\ shortBreach = {}

\* The evaluator with no rule to evaluate
EvalIdle == EvalStart /\ rule = [duration |-> 0, active |-> {}]

\* The sinks, in the order SendNotification goes through them
Sinks == <<"dingtalk", "wecom", "feishu", "webhook">>

SinkNames == {Sinks[i] : i \in 1..Len(Sinks)}

\* No POST was made: nothing came back
NoResponse == [err |-> FALSE, status |-> 0]

\* No SendNotification call yet, nothing configured
NotifierStart ==
    /\ notification = [s \in SinkNames |-> [enabled |-> FALSE, webhook |-> ""]]
    /\ responses = [s \in SinkNames |-> NoResponse]
    /\ posts = [s \in SinkNames |-> 0]
    /\ sendResult = "none"

\* The metric tables of the store: the eight DeleteOldMetrics lists, in its
\* order, and the tables of the two other metric kinds
SweptTables == <<"cpu", "memory", "disk", "network", "load", "disk_io", "gpu",
                 "temperature">>

Tables == {SweptTables[i] : i \in 1..Len(SweptTables)} \cup {"network_conn", "monitor"}

\* The timestamps of the samples: before the cutoff, at it, after it
Cutoff == 2
Stamps == {Cutoff - 1, Cutoff, Cutoff + 1}

\* Empty tables, no sweep
SweepStart ==
    /\ metricTables = [t \in Tables |-> [ts \in Stamps |-> 0]]
    /\ sweep = [pc |-> "idle", table |-> 1, limited |-> TRUE, deleted |-> 0]

\* The probes that send host_info
Probes == {"p1", "p2"}

\* An empty host_metrics table
HostStart ==
    /\ hostMetrics = {}
    /\ lastSaved = [a \in Probes |-> 0]
    /\ saves = 0
    /\ hostTx = [pc |-> "idle", agent |-> "none", rows |-> {}, last |-> "none"]

\* No call of the converter yet
NoCall == [called |-> FALSE]

ConvStart == conv = NoCall

AuditStart == audit = NoCall

LookupStart == lookup = NoCall

GroupingStart == grouping = NoCall

\* The tables Migrate reads, in the order of its tasks
MigrationTasks ==
    <<"cpu_metrics", "memory_metrics", "disk_metrics", "network_metrics",
      "network_connection_metrics", "disk_io_metrics", "gpu_metrics",
      "temperature_metrics", "monitor_metrics">>

OldTables == {MigrationTasks[i] : i \in 1..Len(MigrationTasks)}

\* The migration command has not run: the old tables exist
MigrationStart ==
    migration = [pc |-> "idle", task |-> 1, offset |-> 0, batches |-> 0,
                 deleteOldTables |-> FALSE, errors |-> 0, lost |-> FALSE,
                 tables |-> OldTables]

LaterIdle == ConvStart /\ AuditStart /\ LookupStart /\ GroupingStart /\ MigrationStart

\* The scenario of the session manager in which nothing connects
Quiet == [live |-> {}, timed |-> FALSE, sends |-> FALSE, cancels |-> FALSE,
          faults |-> FALSE]

\* The session manager with no connection, now and later
ManagerIdle == Start /\ env = Quiet

\* The session manager on its own
Init ==
    /\ Start /\ env \in Scenarios
    /\ EvalIdle /\ NotifierStart /\ SweepStart /\ HostStart /\ LaterIdle

----------------------------------------------------------------------------
\* The session table (map[string]*Client)

\* m.clients[id]: the entries under the key id
Lookup(id) == {o \in clients : ID(o) = id}

\* Mutant: the assignment adds an entry without replacing the one under the key
MapPutKeepsOld(m, c) == m \cup {c}

\* m.clients[client.ID] = client
MapPut(m, c) == {o \in m : ID(o) # ID(c)} \cup {c}

\* delete(m.clients, id)
MapDelete(m, id) == {o \in m : ID(o) # id}

\* ClientCount
ClientCount == Cardinality(clients)

----------------------------------------------------------------------------
\* Client.closeChannel on every session of S

\* Mutant: closeChannel without the closed flag
ShouldCloseUnguarded(c) == TRUE

\* if !c.closed
ShouldClose(c) == ~closed[c]

\* close(c.Send) panics on a channel that is already closed
ClosePanics(S) == \E c \in S : ShouldClose(c) /\ sendClosed[c]

closeChannel(S) ==
    /\ closeCalls' = [c \in Sessions |->
           IF c \in S THEN Min(closeCalls[c] + 1, 2) ELSE closeCalls[c]]
    /\ closed' = [c \in Sessions |-> closed[c] \/ (c \in S /\ ShouldClose(c))]
    /\ sendClosed' = [c \in Sessions |-> sendClosed[c] \/ (c \in S /\ ShouldClose(c))]
    /\ crashed' = IF ClosePanics(S) THEN "close of closed channel" ELSE crashed

----------------------------------------------------------------------------
\* The connection handler and Manager.Register

\* Mutant: a register channel that never fills
RegisterReadyUnbounded == TRUE

\* m.register <- client can proceed
RegisterReady == Len(register) < RegisterCap

\* Manager.Register: the channel send is done and the call returns; the
\* handler then starts WritePump and enters ReadPump
RegisterReturns(c) ==
    /\ register' = Append(register, c)
    /\ pc' = [pc EXCEPT ![c] = "reading"]
    /\ wpc' = [wpc EXCEPT ![c] = "run"]

\* A probe connection is accepted (none is after the cancellation): the Client
\* is built with LastActive = now and the handler calls Manager.Register, which
\* blocks while the channel is full
Accept(c) ==
    /\ Running
    /\ ~ctxDone
    /\ c \in env.live
    /\ pc[c] = "new"
    /\ idle' = [idle EXCEPT ![c] = 0]
    /\ IF RegisterReady
       THEN RegisterReturns(c)
       ELSE /\ pc' = [pc EXCEPT ![c] = "registering"]
            /\ UNCHANGED <<register, wpc>>
    /\ UNCHANGED <<clients, unregister, broadcast, mgrVars, ctxDone, Send,
                   sendClosed, closed, closeCalls, connClosed, callVars,
                   crashed, env, frame, otherVars>>

\* A Manager.Register call that was blocked goes on
Register(c) ==
    /\ Running
    /\ pc[c] = "registering"
    /\ RegisterReady
    /\ RegisterReturns(c)
    /\ UNCHANGED <<clients, unregister, broadcast, mgrVars, ctxDone, Send,
                   sendClosed, closed, closeCalls, connClosed, idle, callVars,
                   crashed, env, frame, otherVars>>

----------------------------------------------------------------------------
\* Manager.Run: one case of the select per action

\* Mutant: registerClient overwrites the entry without closing the old client
DisplacedIgnored(c) == {}

\* the old client registerClient closes
Displaced(c) == Lookup(ID(c))

registerClient(c) ==
    /\ closeChannel(Displaced(c))
    /\ connClosed' = [o \in Sessions |-> connClosed[o] \/ o \in Displaced(c)]
    /\ clients' = MapPut(clients, c)

ServeRegister ==
    /\ Running
    /\ mgrPc = "select"
    /\ register # <<>>
    /\ registerClient(Head(register))
    /\ register' = Tail(register)
    /\ UNCHANGED <<unregister, broadcast, mgrVars, ctxDone, pc, wpc, Send, idle,
                   callVars, env, frame, otherVars>>

\* if _, exists := m.clients[client.ID]; exists
UnregisterFinds(c) == Lookup(ID(c)) # {}

unregisterClient(c) ==
    IF UnregisterFinds(c)
    THEN /\ clients' = MapDelete(clients, ID(c))
         /\ closeChannel({c})
    ELSE UNCHANGED <<clients, closeCalls, closed, sendClosed, crashed>>

ServeUnregister ==
    /\ Running
    /\ mgrPc = "select"
    /\ unregister # <<>>
    /\ unregisterClient(Head(unregister))
    /\ unregister' = Tail(unregister)
    /\ UNCHANGED <<register, broadcast, mgrVars, ctxDone, pc, wpc, Send,
                   connClosed, idle, callVars, env, frame, otherVars>>

\* select { case client.Send <- message: default: } finds room in the buffer
HasRoom(c) == Len(Send[c]) < SendCap

\* Send after the non-blocking send of msg to every session of S
Deliver(S, msg) ==
    [c \in Sessions |-> IF c \in S /\ HasRoom(c) THEN Append(Send[c], msg) ELSE Send[c]]

\* The range over the map stops at the first client whose Send is closed (the
\* send panics); the clients visited before it, in map order, are any subset.
broadcastMessage(msg) ==
    LET dead == {c \in clients : sendClosed[c]} IN
    IF dead = {}
    THEN /\ Send' = Deliver(clients, msg)
         /\ UNCHANGED crashed
    ELSE /\ \E visited \in SUBSET (clients \ dead) : Send' = Deliver(visited, msg)
         /\ crashed' = "send on closed channel"

ServeBroadcast ==
    /\ Running
    /\ mgrPc = "select"
    /\ broadcast # <<>>
    /\ broadcastMessage(Head(broadcast))
    /\ broadcast' = Tail(broadcast)
    /\ UNCHANGED <<clients, register, unregister, mgrVars, ctxDone, pc, wpc,
                   sendClosed, closed, closeCalls, connClosed, idle, callVars,
                   env, frame, otherVars>>

\* Mutant: the cutoff itself counts as inactive
IsInactiveAtCutoff(c) == idle[c] >= Timeout

\* time.Since(client.LastActive) > timeout
IsInactive(c) == idle[c] > Timeout

\* m.unregister <- client can proceed
UnregisterReady == Len(unregister) < UnregisterCap

\* checkInactiveClients, first loop: collect the inactive clients
TickScan ==
    /\ Running
    /\ mgrPc = "select"
    /\ inactive' = {c \in clients : IsInactive(c)}
    /\ mgrPc' = "tick"
    /\ UNCHANGED <<clients, register, unregister, broadcast, evicting, ctxDone,
                   sessVars, callVars, crashed, env, frame, otherVars>>

\* checkInactiveClients, second loop, for one client: re-check the key, close
\* the socket, m.unregister <- client. The send blocks while the channel is
\* full, and then for ever: Run, the only receiver, is the goroutine that waits.
TickEvict(c) ==
    /\ Running
    /\ mgrPc = "tick"
    /\ evicting = None
    /\ c \in inactive
    /\ inactive' = inactive \ {c}
    /\ IF Lookup(ID(c)) # {}
       THEN /\ connClosed' = [connClosed EXCEPT ![c] = TRUE]
            /\ IF UnregisterReady
               THEN /\ unregister' = Append(unregister, c)
                    /\ UNCHANGED evicting
               ELSE /\ evicting' = c
                    /\ UNCHANGED unregister
       ELSE UNCHANGED <<connClosed, evicting, unregister>>
    /\ UNCHANGED <<clients, register, broadcast, mgrPc, ctxDone, pc, wpc, Send,
                   sendClosed, closed, closeCalls, idle, callVars, crashed,
                   env, frame, otherVars>>

\* checkInactiveClients returns
TickDone ==
    /\ Running
    /\ mgrPc = "tick"
    /\ inactive = {}
    /\ evicting = None
    /\ mgrPc' = "select"
    /\ UNCHANGED <<clients, register, unregister, broadcast, inactive, evicting,
                   ctxDone, sessVars, callVars, crashed, env, frame, otherVars>>

\* case <-ctx.Done(): return
Stop ==
    /\ Running
    /\ mgrPc = "select"
    /\ ctxDone
    /\ mgrPc' = "stopped"
    /\ UNCHANGED <<clients, register, unregister, broadcast, inactive, evicting,
                   ctxDone, sessVars, callVars, crashed, env, frame, otherVars>>

----------------------------------------------------------------------------
\* Client.ReadPump

\* ReadMessage returns a frame, or the pong handler runs: LastActive = now.
\* The read deadline is set at the start and by the pong handler only, so it
\* has passed once LastActive is ReadDeadline old, and no read succeeds then.
\* the deferred function: c.Manager.unregister <- c is done; c.Conn.Close()
ReadPumpReturns(c) ==
    /\ unregister' = Append(unregister, c)
    /\ connClosed' = [connClosed EXCEPT ![c] = TRUE]
    /\ pc' = [pc EXCEPT ![c] = "done"]

\* The loop is left (break) and the deferred function runs; its send blocks
\* while the channel is full
LoopBreaks(c) ==
    IF UnregisterReady
    THEN ReadPumpReturns(c)
    ELSE /\ pc' = [pc EXCEPT ![c] = "unregistering"]
         /\ UNCHANGED <<unregister, connClosed>>

\* What one read that does not fail can bring: a pong (the pong handler runs
\* inside ReadMessage), a frame whose envelope does not decode, a frame the
\* message handler accepts, and a frame for which it returns an error
Outcomes == {"pong", "undecodable", "handled", "handler_error"}

\* The outcomes told apart in this run
Observed == IF env.faults THEN Outcomes ELSE {"handled"}

LoopEndsOnDecodeError(o) == o = "undecodable"

LoopEndsOnHandlerError(o) == o = "handler_error"

\* Whether the loop is left after a read that did not fail: never; a decode
\* error ends in `continue`, a handler error is logged
LoopEndsOn(o) == FALSE

\* ReadMessage returns a frame, or the pong handler runs: LastActive = now.
\* The read deadline is set at the start and by the pong handler only, so it
\* has passed once LastActive is ReadDeadline old, and no read succeeds then.
ReadFrame(c, o) ==
    /\ Running
    /\ pc[c] = "reading"
    /\ ~connClosed[c]
    /\ idle[c] < ReadDeadline
    /\ idle' = [idle EXCEPT ![c] = 0]
    /\ frame' = IF env.faults THEN [client |-> c, outcome |-> o] ELSE frame
    /\ IF LoopEndsOn(o)
       THEN LoopBreaks(c)
       ELSE UNCHANGED <<pc, unregister, connClosed>>
    /\ UNCHANGED <<clients, register, broadcast, mgrVars, ctxDone,
                   wpc, Send, sendClosed, closed, closeCalls,
                   callVars, crashed, env, otherVars>>

\* ReadMessage returns an error (socket closed, peer gone, deadline): break
ReadError(c) ==
    /\ Running
    /\ pc[c] = "reading"
    /\ LoopBreaks(c)
    /\ UNCHANGED <<clients, register, broadcast, mgrVars, ctxDone, wpc, Send,
                   sendClosed, closed, closeCalls, idle, callVars, crashed,
                   env, frame, otherVars>>

\* A deferred function that was blocked on m.unregister <- c goes on
ReadExit(c) ==
    /\ Running
    /\ pc[c] = "unregistering"
    /\ UnregisterReady
    /\ ReadPumpReturns(c)
    /\ UNCHANGED <<clients, register, broadcast, mgrVars, ctxDone, wpc, Send,
                   sendClosed, closed, closeCalls, idle, callVars, crashed,
                   env, frame, otherVars>>

----------------------------------------------------------------------------
\* Client.WritePump

\* case message, ok := <-c.Send with ok: the frame is written to the socket
WriteFrame(c) ==
    /\ Running
    /\ wpc[c] = "run"
    /\ Send[c] # <<>>
    /\ ~connClosed[c]
    /\ Send' = [Send EXCEPT ![c] = Tail(@)]
    /\ UNCHANGED <<clients, register, unregister, broadcast, mgrVars, ctxDone,
                   pc, wpc, sendClosed, closed, closeCalls, connClosed, idle,
                   callVars, crashed, env, frame, otherVars>>

\* case message, ok := <-c.Send with !ok: the close message, then return
WriteClosed(c) ==
    /\ Running
    /\ wpc[c] = "run"
    /\ Send[c] = <<>>
    /\ sendClosed[c]
    /\ wpc' = [wpc EXCEPT ![c] = "done"]
    /\ connClosed' = [connClosed EXCEPT ![c] = TRUE]
    /\ UNCHANGED <<clients, register, unregister, broadcast, mgrVars, ctxDone,
                   pc, Send, sendClosed, closed, closeCalls, idle, callVars,
                   crashed, env, frame, otherVars>>

\* WriteMessage fails, on a ping (dropFrame = FALSE) or on a frame just taken
\* from c.Send (dropFrame = TRUE): return, and the deferred c.Conn.Close()
WriteError(c, dropFrame) ==
    /\ Running
    /\ wpc[c] = "run"
    /\ dropFrame => Send[c] # <<>>
    /\ Send' = [Send EXCEPT ![c] = IF dropFrame THEN Tail(@) ELSE @]
    /\ wpc' = [wpc EXCEPT ![c] = "done"]
    /\ connClosed' = [connClosed EXCEPT ![c] = TRUE]
    /\ UNCHANGED <<clients, register, unregister, broadcast, mgrVars, ctxDone,
                   pc, sendClosed, closed, closeCalls, idle, callVars, crashed, env, frame, otherVars>>

----------------------------------------------------------------------------
\* Manager.SendToClient, called from any goroutine

\* m.mu.RLock(); client, exists := m.clients[probeID]; m.mu.RUnlock()
SendToLookup(id, msg) ==
    /\ Running
    /\ env.sends
    /\ sendTo.pc = "idle"
    /\ IF Lookup(id) = {}
       THEN /\ result' = "not_found"
            /\ UNCHANGED sendTo
       ELSE /\ \E c \in Lookup(id) :
                  sendTo' = [pc |-> "found", client |-> c, msg |-> msg]
            /\ UNCHANGED result
    /\ UNCHANGED <<clients, register, unregister, broadcast, mgrVars, ctxDone,
                   sessVars, crashed, env, frame, otherVars>>

\* select { case client.Send <- message: return nil; default: return ErrSendTimeout }
SendToEnqueue ==
    /\ Running
    /\ sendTo.pc = "found"
    /\ sendTo' = [pc |-> "idle", client |-> None, msg |-> None]
    /\ IF sendClosed[sendTo.client]
       THEN /\ crashed' = "send on closed channel"
            /\ UNCHANGED <<Send, result>>
       ELSE IF HasRoom(sendTo.client)
       THEN /\ Send' = [Send EXCEPT ![sendTo.client] = Append(@, sendTo.msg)]
            /\ result' = "ok"
            /\ UNCHANGED crashed
       ELSE /\ result' = "queue_full"
            /\ UNCHANGED <<Send, crashed>>
    /\ UNCHANGED <<clients, register, unregister, broadcast, mgrVars, ctxDone,
                   pc, wpc, sendClosed, closed, closeCalls, connClosed, idle,
                   env, frame, otherVars>>

----------------------------------------------------------------------------
\* The environment

\* A broadcast request is put on m.broadcast
Broadcast(msg) ==
    /\ Running
    /\ Len(broadcast) < BroadcastCap
    /\ broadcast' = Append(broadcast, msg)
    /\ UNCHANGED <<clients, register, unregister, mgrVars, ctxDone, sessVars,
                   callVars, crashed, env, frame, otherVars>>

\* The server-level context is cancelled
Cancel ==
    /\ Running
    /\ env.cancels
    /\ ~ctxDone
    /\ ctxDone' = TRUE
    /\ UNCHANGED <<clients, register, unregister, broadcast, mgrVars, sessVars,
                   callVars, crashed, env, frame, otherVars>>

\* TimeStep seconds pass
Advance ==
    /\ Running
    /\ env.timed
    /\ \E c \in Sessions : pc[c] # "new" /\ idle[c] < MaxIdle
    /\ idle' = [c \in Sessions |->
           IF pc[c] = "new" THEN idle[c] ELSE Min(idle[c] + TimeStep, MaxIdle)]
    /\ UNCHANGED <<clients, register, unregister, broadcast, mgrVars, ctxDone,
                   pc, wpc, Send, sendClosed, closed, closeCalls, connClosed,
                   callVars, crashed, env, frame, otherVars>>

----------------------------------------------------------------------------

Next ==
    \/ \E c \in Sessions : Accept(c)
    \/ \E c \in Sessions : Register(c)
    \/ ServeRegister
    \/ ServeUnregister
    \/ ServeBroadcast
    \/ TickScan
    \/ \E c \in Sessions : TickEvict(c)
    \/ TickDone
    \/ Stop
    \/ \E c \in Sessions, o \in Observed : ReadFrame(c, o)
    \/ \E c \in Sessions : ReadError(c)
    \/ \E c \in Sessions : ReadExit(c)
    \/ \E c \in Sessions : WriteFrame(c)
    \/ \E c \in Sessions : WriteClosed(c)
    \/ \E c \in Sessions, d \in BOOLEAN : WriteError(c, d)
    \/ \E id \in ProbeIds, msg \in Frames : SendToLookup(id, msg)
    \/ SendToEnqueue
    \/ \E msg \in Frames : Broadcast(msg)
    \/ Cancel
    \/ Advance

Spec == Init /\ [][Next]_vars

\* What the scheduling guarantees. The select of Run picks at random among the
\* ready cases, so a case that is ready again and again is taken; a sender
\* waiting on a channel gets the room that is freed; a goroutine that can
\* take a step takes it; time passes; a read or a write on a closed socket
\* fails, and so does a read once the read deadline has passed.
Fairness ==
    /\ SF_vars(ServeRegister)
    /\ SF_vars(ServeUnregister)
    /\ SF_vars(ServeBroadcast)
    /\ SF_vars(TickScan)
    /\ SF_vars(Stop)
    /\ WF_vars(TickDone)
    /\ WF_vars(SendToEnqueue)
    /\ WF_vars(Advance)
    /\ \A c \in Sessions :
           /\ WF_vars(TickEvict(c))
           /\ SF_vars(Register(c))
           /\ SF_vars(ReadExit(c))
           /\ WF_vars((connClosed[c] \/ idle[c] >= ReadDeadline) /\ ReadError(c))
           /\ WF_vars(WriteFrame(c))
           /\ WF_vars(WriteClosed(c))
           /\ WF_vars(connClosed[c] /\ \E d \in BOOLEAN : WriteError(c, d))

\* The long runs under the fairness above: one probe that connects once while
\* time passes, SendToClient is called and the context may be cancelled; and
\* one probe that connects twice, so that a Register call can block
FairScenarios ==
    { [live |-> {"A1"}, timed |-> TRUE, sends |-> TRUE, cancels |-> TRUE,
       faults |-> FALSE],
      [live |-> {"A1", "A2"}, timed |-> FALSE, sends |-> FALSE, cancels |-> TRUE,
       faults |-> FALSE] }

FairInit ==
    /\ Start /\ env \in FairScenarios
    /\ EvalIdle /\ NotifierStart /\ SweepStart /\ HostStart /\ LaterIdle

FairSpec == FairInit /\ [][Next]_vars /\ Fairness

----------------------------------------------------------------------------
\* Steps of the supervisor and of the callers, recognised by what they change

Range(q) == {q[i] : i \in 1..Len(q)}

\* Run serves the head of m.register
ServesRegister == mgrPc = "select" /\ register # <<>> /\ register' = Tail(register)

\* Run serves the head of m.unregister
ServesUnregister == mgrPc = "select" /\ unregister # <<>> /\ unregister' = Tail(unregister)

\* Run serves the head of m.broadcast
ServesBroadcast == mgrPc = "select" /\ broadcast # <<>> /\ broadcast' = Tail(broadcast)

\* Manager.Register returns to the handler of session c
RegisterReturned(c) == pc[c] \in {"new", "registering"} /\ pc'[c] = "reading"

\* checkInactiveClients has collected inactiveClients
TickScanned == mgrPc = "select" /\ mgrPc' = "tick"

\* checkInactiveClients handles one of inactiveClients
TickEvicts == mgrPc = "tick" /\ inactive' # inactive

\* The non-blocking send of SendToClient is attempted
SendToAttempts == sendTo.pc = "found" /\ sendTo'.pc = "idle"

IsFull(c) == Len(Send[c]) >= SendCap

----------------------------------------------------------------------------
\* C1: in every reachable state at most one session is registered for each
\* probe id.
C1_OneSessionPerProbe == \A id \in ProbeIds : Cardinality(Lookup(id)) <= 1

\* A second connection of probe pA has displaced the first one, and probe pB is
\* registered too.
C1_Witness ==
    /\ "A2" \in clients /\ "B1" \in clients
    /\ "A1" \notin clients /\ sendClosed["A1"]

\* C2: serving Unregister(s) removes s and closes it when s itself is the
\* registered entry, and otherwise leaves the table unchanged.
C2_UnregisterByIdentity ==
    [][ServesUnregister =>
          LET s == Head(unregister) IN
          IF s \in clients
          THEN clients' = clients \ {s} /\ sendClosed'[s]
          ELSE clients' = clients]_vars

\* C3: when the register request of b is served while another session a is
\* registered for the same probe id, a's send queue and socket are closed, the
\* only session registered for the id is b, and the count is unchanged.
C3_Displacement ==
    [][ServesRegister =>
          LET b == Head(register) IN
          \A a \in Lookup(ID(b)) \ {b} :
              /\ sendClosed'[a]
              /\ connClosed'[a]
              /\ {o \in clients' : ID(o) = ID(b)} = {b}
              /\ Cardinality(clients') = Cardinality(clients)]_vars

\* a was displaced by b: no unregister request for a was ever made (its read
\* loop still runs and no session ages in this run), yet a is closed.
C3_Witness ==
    \E a, b \in Sessions :
        /\ a # b /\ ID(a) = ID(b)
        /\ ~env.timed /\ pc[a] = "reading"
        /\ b \in clients /\ a \notin clients
        /\ sendClosed[a] /\ connClosed[a]

\* C4 as stated: when Register returns the session is in the table, and no
\* Register call ever waits.
C4_RegisterCompletesOnReturn ==
    /\ [][\A c \in Sessions : RegisterReturned(c) => c \in clients']_vars
    /\ [](\A c \in Sessions : pc[c] # "registering")

\* C4 amended: Register only appends the session to the register queue, which
\* must have room (the call waits while it is full); when it returns the table
\* and every session's queue and socket are as before. The table changes only
\* in a step of the supervisor loop.
C4_RegisterEnqueuesOnly ==
    [][/\ \A c \in Sessions :
              RegisterReturned(c) =>
                  /\ Len(register) < RegisterCap
                  /\ register' = Append(register, c)
                  /\ clients' = clients
                  /\ sendClosed' = sendClosed
                  /\ connClosed' = connClosed
       /\ clients' # clients => mgrPc = "select"]_vars

\* The supervisor has stopped; one Register call has returned with its session
\* still in the queue, not in the table, and another call waits for room.
C4_Witness ==
    \E c, d \in Sessions :
        /\ mgrPc = "stopped"
        /\ pc[c] = "registering" /\ Len(register) = RegisterCap
        /\ pc[d] = "reading" /\ d \in Range(register) /\ d \notin clients

\* C5: the enqueue attempt of SendTo, made without the table lock on the
\* session found by the lookup, ends in queue_full with the queue unchanged
\* when the queue is at capacity and otherwise in ok with the frame appended
\* at the tail; the lookup finds only registered sessions; the call never
\* ends in anything else.
C5_SendToContract ==
    [][/\ (sendTo.pc = "idle" /\ sendTo'.pc = "found") => sendTo'.client \in clients
       /\ SendToAttempts =>
              /\ crashed' = "none"
              /\ IF IsFull(sendTo.client)
                 THEN result' = "queue_full" /\ Send' = Send
                 ELSE /\ result' = "ok"
                      /\ Send' = [Send EXCEPT ![sendTo.client] = Append(@, sendTo.msg)]]_vars

\* C6 as stated: the tick selects a session that is exactly 120 s old and
\* selects none that is younger.
C6_EvictedAtCutoff ==
    [][TickScanned =>
          \A c \in clients :
              /\ idle[c] = Timeout => c \in inactive'
              /\ idle[c] < Timeout => c \notin inactive']_vars

\* C6 amended: the tick selects exactly the registered sessions whose last
\* activity is more than 120 s old; a session that is exactly 120 s old, or
\* younger, is not selected, and the tick closes the socket of, and enqueues an
\* unregister for, selected sessions only.
C6_EvictedPastCutoff ==
    [][/\ TickScanned =>
              \A c \in Sessions : c \in inactive' <=> (c \in clients /\ idle[c] > Timeout)
       /\ TickEvicts =>
              /\ \A c \in Sessions : connClosed'[c] /\ ~connClosed[c] => c \in inactive
              /\ \A c \in Range(unregister') \ Range(unregister) : c \in inactive]_vars

\* A tick is running that found one session exactly 120 s old and left it
\* alone: it is registered, not selected, and its socket is open.
C6_Witness ==
    \E c \in clients :
        /\ mgrPc = "tick"
        /\ idle[c] = Timeout
        /\ c \notin inactive /\ evicting # c
        /\ ~connClosed[c]

\* The socket of the session is closed and its read loop and write loop have
\* returned.
LoopsReturned(c) == connClosed[c] /\ pc[c] = "done" /\ wpc[c] = "done"

\* C7: while the server runs (no cancellation, no panic), a registered session
\* that has been silent for more than 120 s is heard from again or is evicted:
\* its socket closed, the session out of the table with its send queue closed,
\* both loops returned.
C7_SilentSessionEvicted ==
    [](crashed = "none" /\ ~ctxDone) =>
        \A c \in Sessions :
            (c \in clients /\ idle[c] > Timeout)
                ~> (idle[c] <= Timeout
                    \/ (c \notin clients /\ sendClosed[c] /\ LoopsReturned(c)))

\* C8: unless something panics, once the context is cancelled the table
\* becomes empty and every accepted session has its socket closed and both
\* loops returned.
C8_CancelTearsDown ==
    [](crashed = "none") =>
        (ctxDone ~> (clients = {} /\ \A c \in Sessions : pc[c] = "new" \/ LoopsReturned(c)))

\* C9: close(c.Send) is never run on a queue that is already closed, and the
\* closed flag of a session always tells whether its queue is closed.
C9_SendClosedOnce ==
    /\ crashed # "close of closed channel"
    /\ \A c \in Sessions : closed[c] = sendClosed[c]
    /\ \A c \in Sessions : sendClosed[c] <=> closeCalls[c] >= 1

\* closeChannel has been called twice on one session and nothing panicked.
C9_Witness == \E c \in Sessions : closeCalls[c] = 2 /\ crashed = "none"

\* C10: when a broadcast finds the queue of a registered session full, the
\* table, every socket and every closed flag are unchanged, the full queues keep
\* their frames, and every other registered session with room gets the frame
\* at the tail of its queue; a SendTo that finds the queue full changes nothing.
C10_DropOnFullOnly ==
    [][/\ (ServesBroadcast /\ \E x \in clients : IsFull(x)) =>
              /\ clients' = clients
              /\ sendClosed' = sendClosed
              /\ connClosed' = connClosed
              /\ \A x \in clients :
                     Send'[x] = IF IsFull(x) THEN Send[x]
                                ELSE Append(Send[x], Head(broadcast))
       /\ (SendToAttempts /\ IsFull(sendTo.client) /\ ~sendClosed[sendTo.client]) =>
              /\ clients' = clients
              /\ sendClosed' = sendClosed
              /\ connClosed' = connClosed
              /\ Send' = Send]_vars

----------------------------------------------------------------------------
\* Steps of the read loop

\* The read loop of c has read a frame with outcome o
ReadsFrame(c, o) ==
    /\ pc[c] = "reading"
    /\ frame' = [client |-> c, outcome |-> o]
    /\ frame' # frame \/ (idle[c] > 0 /\ idle'[c] = 0)

\* Nothing of session c but the time of its last activity changes
SessionKept(c) ==
    /\ pc'[c] = "reading"
    /\ wpc'[c] = wpc[c]
    /\ connClosed'[c] = connClosed[c]
    /\ sendClosed'[c] = sendClosed[c]
    /\ Send'[c] = Send[c]
    /\ clients' = clients
    /\ unregister' = unregister

\* C11: a frame whose envelope does not decode is skipped: the loop keeps
\* reading and the session, its socket and the table are as before. The loop
\* is left only by a read error, never by a frame; it is never entered again,
\* and the read loop returns exactly by enqueuing the unregister of its session
\* and closing the socket.
C11_DecodeErrorSkipsReadErrorEnds ==
    [][\A c \in Sessions :
          /\ ReadsFrame(c, "undecodable") => SessionKept(c)
          /\ (pc[c] = "reading" /\ pc'[c] # "reading") =>
                 /\ pc'[c] \in {"unregistering", "done"}
                 /\ frame' = frame
          /\ pc[c] \in {"unregistering", "done"} => pc'[c] # "reading"
          /\ (pc[c] # "done" /\ pc'[c] = "done") =>
                 /\ unregister' = Append(unregister, c)
                 /\ connClosed'[c]]_vars

\* The latest frame of a registered session did not decode, the session stayed,
\* and then a read error ended its loop: the unregister is queued and the
\* socket closed.
C11_Witness ==
    \E c \in clients :
        /\ frame = [client |-> c, outcome |-> "undecodable"]
        /\ pc[c] = "done"
        /\ c \in Range(unregister)
        /\ connClosed[c]

\* C12: an error returned by the message handler for a frame leaves the
\* session as it is: still in the table if it was, its socket open, no
\* unregister enqueued, the read loop reading on.
C12_HandlerErrorKeepsSession ==
    [][\A c \in Sessions :
          ReadsFrame(c, "handler_error") =>
              /\ SessionKept(c)
              /\ ~connClosed'[c]
              /\ crashed' = "none"]_vars

\* The handler has returned an error for the latest frame of a registered
\* session, time has passed since, and the session is registered, open and
\* reading.
C12_Witness ==
    \E c \in clients :
        /\ frame = [client |-> c, outcome |-> "handler_error"]
        /\ pc[c] = "reading"
        /\ idle[c] > 0
        /\ ~connClosed[c] /\ ~sendClosed[c]

----------------------------------------------------------------------------
\* The alert evaluator: one cpu rule evaluated for each probe it is active for

\* The rule's threshold
Threshold == 80
\* The values a probe reports: just below the threshold and exactly at it
Values == {Threshold - 1, Threshold}
\* The longest time between two evaluations
TickInterval == 2
\* The evaluations stop at this time
MaxTime == 6
\* The durations a rule can have
Durations == {0, 3}
\* The order in which one evaluation goes through the keys
KeyOrder == <<"p1", "p2">>
\* No time
NoTime == 0 - 1
\* No AlertState for a key
NoState == [StartTime |-> NoTime, IsFiring |-> FALSE, LastRecordID |-> 0]
\* v >= threshold: a value equal to the threshold is a breach
Breach(v) == v >= Threshold

\* A breach is seen with no state: the state is created, not firing
NewState(t) == [StartTime |-> t, IsFiring |-> FALSE, LastRecordID |-> 0]

DurationMetAlways(s, t, D) == TRUE

\* t - first_breach >= D
DurationMet(s, t, D) == t - s.StartTime >= D

AfterShortBreachKept(s) == s

\* The value is below the threshold and the state is not firing: delete it
AfterShortBreach(s) == NoState

AfterResolveKept(s) == s

\* The value is below the threshold and the state is firing: after the
\* resolved update, delete the state
AfterResolve(s) == NoState

AfterNotifyRollsBack(s, delivered) ==
    IF delivered THEN s ELSE [s EXCEPT !.IsFiring = FALSE]

\* The state after the Notifier was invoked: as before, delivered or not
AfterNotify(s, delivered) == s

\* AlertRepo.CreateAlertRecord: the row gets the next id
CreateAlertRecord(recs, r) == Append(recs, [r EXCEPT !.ID = Len(recs) + 1])

\* AlertRepo.UpdateAlertRecord: Save writes the row with the record's id
UpdateAlertRecord(recs, r) == [recs EXCEPT ![r.ID] = r]

\* The state is not firing and the breach has lasted: fire. The record is
\* persisted, then the Notifier is invoked.
Fire(S, k, v, t, delivered, since) ==
    LET recs == CreateAlertRecord(S.rec,
                    [ID |-> 0, AgentID |-> k, Status |-> "firing",
                     FiredAt |-> t, ResolvedAt |-> 0, ActualValue |-> v,
                     breachAt |-> since[k], resolves |-> 0,
                     orphaned |-> FALSE])
        id == Len(recs)
        s == [S.st[k] EXCEPT !.IsFiring = TRUE, !.LastRecordID = id]
    IN  [st |-> [S.st EXCEPT ![k] = AfterNotify(s, delivered)],
         rec |-> recs,
         note |-> Append(S.note, [record |-> id, status |-> "firing",
                                  delivered |-> delivered])]

\* The state is firing and the value is below the threshold: resolve the
\* record the state remembers, invoke the Notifier, delete the state
Resolve(S, k, v, t, delivered) ==
    LET s == S.st[k]
        r == S.rec[s.LastRecordID]
    IN  [st |-> [S.st EXCEPT ![k] = AfterResolve(s)],
         rec |-> UpdateAlertRecord(S.rec,
                     [r EXCEPT !.Status = "resolved", !.ResolvedAt = t,
                               !.ActualValue = v, !.resolves = @ + 1]),
         note |-> Append(S.note, [record |-> r.ID, status |-> "resolved",
                                  delivered |-> delivered])]

\* The evaluation of one key with value v at time t
EvalKey(S, k, v, t, D, delivered, since) ==
    LET s == S.st[k] IN
    IF s = NoState
    THEN IF Breach(v) THEN [S EXCEPT !.st[k] = NewState(t)] ELSE S
    ELSE IF Breach(v)
         THEN IF ~s.IsFiring /\ DurationMet(s, t, D)
              THEN Fire(S, k, v, t, delivered, since)
              ELSE S
         ELSE IF s.IsFiring
              THEN Resolve(S, k, v, t, delivered)
              ELSE [S EXCEPT !.st[k] = AfterShortBreach(s)]

RECURSIVE EvalAll(_, _, _, _, _, _, _)
\* The evaluation of the keys from the i-th on, in order
EvalAll(S, i, vals, t, r, delivered, since) ==
    IF i > Len(KeyOrder) THEN S
    ELSE LET k == KeyOrder[i]
             S1 == IF k \in r.active
                   THEN EvalKey(S, k, vals[k], t, r.duration, delivered, since)
                   ELSE S
         IN  EvalAll(S1, i + 1, vals, t, r, delivered, since)

\* Since when the evaluations of k have seen a breach without a gap, after the
\* evaluation of v at t
SinceAfter(k, v, t) ==
    IF v >= Threshold
    THEN IF breachSince[k] = NoTime THEN t ELSE breachSince[k]
    ELSE NoTime

\* One evaluation, dt after the previous one: every probe the rule is active
\* for has reported a value; the sinks answer or fail
Tick(dt, vals, delivered) ==
    /\ clock + dt <= MaxTime
    /\ LET t == clock + dt
           since == [k \in Keys |->
                        IF k \in rule.active THEN SinceAfter(k, vals[k], t)
                        ELSE breachSince[k]]
           S == EvalAll([st |-> alertStates, rec |-> alertRecords,
                         note |-> notifications],
                        1, vals, t, rule, delivered, since)
       IN  /\ clock' = t
           /\ breachSince' = since
           /\ alertStates' = S.st
           /\ alertRecords' = S.rec
           /\ notifications' = S.note
           /\ shortBreach' = shortBreach \cup
                  {k \in rule.active :
                      /\ alertStates[k] # NoState /\ ~alertStates[k].IsFiring
                      /\ ~Breach(vals[k])}
    /\ UNCHANGED <<rule, managerVars, laterVars, notifyVars, sweepVars, hostVars>>

\* A rule reload between two evaluations: the rule becomes active for the
\* probes of A only; the state of a key it is no longer active for is dropped
\* and its record is left as it is (orphaned only notes that this happened)
Reload(A) ==
    /\ clock < MaxTime
    /\ A # rule.active
    /\ rule' = [rule EXCEPT !.active = A]
    /\ alertStates' = [k \in Keys |-> IF k \in A THEN alertStates[k] ELSE NoState]
    /\ breachSince' = [k \in Keys |-> IF k \in A THEN breachSince[k] ELSE NoTime]
    /\ alertRecords' = [i \in DOMAIN alertRecords |->
           LET r == alertRecords[i] IN
           IF r.AgentID \notin A /\ r.Status = "firing"
           THEN [r EXCEPT !.orphaned = TRUE] ELSE r]
    /\ UNCHANGED <<clock, notifications, shortBreach, managerVars, laterVars, notifyVars,
                   sweepVars, hostVars>>

AlertInit ==
    /\ ManagerIdle /\ NotifierStart /\ SweepStart /\ HostStart /\ LaterIdle
    /\ EvalStart
    /\ rule \in [duration : Durations, active : {Keys}]

AlertNext ==
    \/ \E dt \in 1..TickInterval, vals \in [Keys -> Values], delivered \in BOOLEAN :
           Tick(dt, vals, delivered)
    \/ \E A \in {Keys, {"p1"}} : Reload(A)

AlertSpec == AlertInit /\ [][AlertNext]_vars

----------------------------------------------------------------------------
\* Steps of the evaluator, recognised by what they change

\* The rows of the records table
RecordIds == DOMAIN alertRecords

\* This step is an evaluation of key k
Evaluates(k) == clock' # clock /\ k \in rule.active

\* This step is an evaluation of key k that sees a value below the threshold
SeesBelow(k) == Evaluates(k) /\ breachSince'[k] = NoTime

\* The records of key k
RecordsOf(recs, k) == SelectSeq(recs, LAMBDA r : r.AgentID = k)

\* The Notifier invocations this step makes
NewNotes == {notifications'[i] : i \in (Len(notifications) + 1)..Len(notifications')}

\* The time from the first breach to the firing of record r
FiringDelay(r) == r.FiredAt - r.breachAt

\* C13 as stated: every firing record is created at least duration after the
\* first breach of a run of evaluations that all saw a breach, and less than
\* duration + tick interval after it.
C13_FiresWithinOneTick ==
    \A i \in RecordIds :
        LET r == alertRecords[i] IN
        /\ r.breachAt # NoTime
        /\ FiringDelay(r) >= rule.duration
        /\ FiringDelay(r) < rule.duration + TickInterval

\* C13 amended: as stated for a positive duration; with duration 0 the record
\* is created at the evaluation after the one that saw the first breach, more
\* than 0 and at most one tick interval later.
C13_FiresAtFirstEvaluationPastDuration ==
    \A i \in RecordIds :
        LET r == alertRecords[i] IN
        /\ r.breachAt # NoTime
        /\ FiringDelay(r) >= rule.duration
        /\ rule.duration > 0 => FiringDelay(r) < rule.duration + TickInterval
        /\ rule.duration = 0 => FiringDelay(r) > 0 /\ FiringDelay(r) <= TickInterval

\* A record fired later than the duration after its first breach, because no
\* evaluation fell on the duration exactly.
C13_Witness ==
    \E i \in RecordIds :
        /\ rule.duration > 0
        /\ FiringDelay(alertRecords[i]) = rule.duration + 1

C15_ShortBreachLeavesNoTrace ==
    [][\A k \in Keys :
          /\ (SeesBelow(k) /\ alertStates[k] # NoState /\ ~alertStates[k].IsFiring) =>
                 /\ alertStates'[k] = NoState
                 /\ RecordsOf(alertRecords', k) = RecordsOf(alertRecords, k)
                 /\ \A n \in NewNotes : alertRecords'[n.record].AgentID # k
          /\ (alertStates[k] = NoState /\ alertStates'[k] # NoState) =>
                 alertStates'[k] = NewState(clock')
          /\ \A i \in DOMAIN alertRecords' :
                 alertRecords'[i].AgentID = k =>
                     alertRecords'[i].FiredAt - alertRecords'[i].breachAt >= rule.duration]_vars

\* A key had a breach that ended before it fired, and a later breach of
\* the same key has fired, counted from its own start.
C15_Witness ==
    \E i \in RecordIds :
        LET r == alertRecords[i] IN
        /\ r.AgentID \in shortBreach
        /\ rule.duration > 0
        /\ r.breachAt > 1
        /\ \A j \in RecordIds : alertRecords[j].AgentID = r.AgentID => j >= i

\* C16: a Notifier invocation that fails changes nothing: after a failed firing
\* notification the record is persisted with status firing and the state is
\* firing and remembers the record; after a failed resolved notification the
\* record is resolved; and a resolved notification is always for the record
\* the firing state remembered, never for a new one.
C16_SinkFailureKeepsAlert ==
    [][\A n \in NewNotes :
          LET k == alertRecords'[n.record].AgentID IN
          /\ n.record \in DOMAIN alertRecords'
          /\ n.status = "firing" =>
                 /\ alertRecords'[n.record].Status = "firing"
                 /\ alertStates'[k].IsFiring
                 /\ alertStates'[k].LastRecordID = n.record
          /\ n.status = "resolved" =>
                 /\ alertRecords'[n.record].Status = "resolved"
                 /\ n.record \in RecordIds
                 /\ alertStates[k].IsFiring
                 /\ alertStates[k].LastRecordID = n.record
                 /\ Len(RecordsOf(alertRecords', k)) = Len(RecordsOf(alertRecords, k))]_vars

\* The firing notification of a record failed, and later the resolved
\* notification of the same record was delivered.
C16_Witness ==
    \E i, j \in DOMAIN notifications :
        /\ i < j
        /\ notifications[i].status = "firing" /\ ~notifications[i].delivered
        /\ notifications[j].status = "resolved" /\ notifications[j].delivered
        /\ notifications[i].record = notifications[j].record
        /\ alertRecords[notifications[j].record].Status = "resolved"

----------------------------------------------------------------------------
\* Notifier.SendNotification

\* The webhook values of a sink: none, a URL, and a text that is not empty but
\* does not parse as a URL (http.NewRequestWithContext fails on it)
Webhooks == {"", "url", "unparseable"}

\* The status codes a sink answers with, around the bounds of 2xx
StatusCodes == {199, 200, 299, 300, 500}

\* What client.Do runs into: a transport error (refused, timeout), or a response
Responses ==
    {[err |-> TRUE, status |-> 0]} \cup {[err |-> FALSE, status |-> c] : c \in StatusCodes}

\* notification.XEnabled && notification.XWebhook != ""
ShouldSend(n, s) == n[s].enabled /\ n[s].webhook # ""

\* http.NewRequestWithContext succeeds
Builds(url) == url # "unparseable"

\* The sinks for which client.Do is called
Posted(n) == {s \in SinkNames : ShouldSend(n, s) /\ Builds(n[s].webhook)}

\* resp.StatusCode < 200 || resp.StatusCode >= 300 is an error
StatusOK(code) == ~(code < 200 \/ code >= 300)

\* sendJSONRequest: whether client.Do was called, and whether an error comes back
sendJSONRequest(url, resp) ==
    IF ~Builds(url) THEN [posted |-> FALSE, failed |-> TRUE]
    ELSE IF resp.err THEN [posted |-> TRUE, failed |-> TRUE]
    ELSE [posted |-> TRUE, failed |-> ~StatusOK(resp.status)]

StopsAtFirstError(errs) == errs = {}

\* Whether SendNotification goes on to the next sink: always, the error of a
\* sink is only logged and collected
Proceeds(errs) == TRUE

RECURSIVE SendFrom(_, _, _, _)
\* The sinks from the i-th on: acc is the POSTs made and the errors collected
SendFrom(i, n, resp, acc) ==
    IF i > Len(Sinks) \/ ~Proceeds(acc.errs) THEN acc
    ELSE LET s == Sinks[i]
             r == sendJSONRequest(n[s].webhook, resp[s])
         IN  IF ShouldSend(n, s)
             THEN SendFrom(i + 1, n, resp,
                      [posts |-> IF r.posted
                                 THEN [acc.posts EXCEPT ![s] = @ + 1]
                                 ELSE acc.posts,
                       errs |-> IF r.failed THEN acc.errs \cup {s} ELSE acc.errs])
             ELSE SendFrom(i + 1, n, resp, acc)

\* One SendNotification call; resp is what each POST that is made runs into
SendNotification(resp) ==
    /\ sendResult = "none"
    /\ \A s \in SinkNames : s \notin Posted(notification) => resp[s] = NoResponse
    /\ \A s \in Posted(notification) : resp[s] \in Responses
    /\ LET acc == SendFrom(1, notification, resp,
                      [posts |-> [s \in SinkNames |-> 0], errs |-> {}])
       IN  /\ posts' = acc.posts
           /\ sendResult' = IF acc.errs # {} THEN "error" ELSE "nil"
    /\ responses' = resp
    /\ UNCHANGED <<notification, managerVars, laterVars, evalVars, sweepVars, hostVars>>

NotifyInit ==
    /\ ManagerIdle /\ EvalIdle /\ SweepStart /\ HostStart /\ LaterIdle
    /\ notification \in [SinkNames -> [enabled : BOOLEAN, webhook : Webhooks]]
    /\ responses = [s \in SinkNames |-> NoResponse]
    /\ posts = [s \in SinkNames |-> 0]
    /\ sendResult = "none"

NotifyNext == \E resp \in [SinkNames -> Responses \cup {NoResponse}] : SendNotification(resp)

NotifySpec == NotifyInit /\ [][NotifyNext]_vars

\* The POST to sink s failed: a transport error or a status outside 200..299
PostFailed(s) == responses[s].err \/ responses[s].status < 200 \/ responses[s].status > 299

\* C17 as stated: when the call has returned, every sink that is enabled with
\* a non-empty URL has received exactly one POST and every other sink none,
\* and the call returned an error iff the POST to one of them failed.
C17_OnePostPerEnabledSink ==
    sendResult # "none" =>
        /\ \A s \in SinkNames :
               posts[s] = IF notification[s].enabled /\ notification[s].webhook # ""
                          THEN 1 ELSE 0
        /\ sendResult = "error" <=>
               \E s \in SinkNames :
                   /\ notification[s].enabled /\ notification[s].webhook # ""
                   /\ PostFailed(s)

\* C17 amended: every sink that is enabled with a non-empty URL for which the
\* request can be built has received exactly one POST, every other sink none,
\* and the call returned an error iff for one enabled sink with a non-empty
\* URL the request could not be built or the POST failed.
C17_OnePostPerBuildableSink ==
    sendResult # "none" =>
        /\ \A s \in SinkNames :
               posts[s] = IF /\ notification[s].enabled
                             /\ notification[s].webhook \notin {"", "unparseable"}
                          THEN 1 ELSE 0
        /\ sendResult = "error" <=>
               \E s \in SinkNames :
                   /\ notification[s].enabled /\ notification[s].webhook # ""
                   /\ notification[s].webhook = "unparseable" \/ PostFailed(s)

\* The call has returned an error: the first sink answered 500, the second
\* has a URL but is disabled, the third ran into a transport error, and
\* the last still got its POST and answered 200.
C17_Witness ==
    /\ sendResult = "error"
    /\ posts = [s \in SinkNames |-> IF s = "wecom" THEN 0 ELSE 1]
    /\ responses["dingtalk"] = [err |-> FALSE, status |-> 500]
    /\ notification["wecom"] = [enabled |-> FALSE, webhook |-> "url"]
    /\ responses["feishu"].err
    /\ responses["webhook"] = [err |-> FALSE, status |-> 200]

----------------------------------------------------------------------------
\* MetricRepo.DeleteOldMetrics

\* batchSize, 1000 in the source
BatchSize == 2

\* The most rows with one timestamp in one table
MaxRows == 3

RECURSIVE SumOver(_, _)
SumOver(f, S) ==
    IF S = {} THEN 0
    ELSE LET x == CHOOSE y \in S : TRUE IN f[x] + SumOver(f, S \ {x})

ExpiredAtCutoff(ts, before) == ts <= before

\* Where("timestamp < ?", beforeTimestamp)
Expired(ts, before) == ts < before

\* The number of rows of a table that the WHERE clause matches
Matching(rows) ==
    SumOver([ts \in Stamps |-> IF Expired(ts, Cutoff) THEN rows[ts] ELSE 0], Stamps)

\* The ways one DELETE statement removes n matching rows of a table
Deletions(rows, n) ==
    {d \in [Stamps -> 0..MaxRows] :
        /\ \A ts \in Stamps : d[ts] <= rows[ts] /\ (~Expired(ts, Cutoff) => d[ts] = 0)
        /\ SumOver(d, Stamps) = n}

\* The sweep is called. Whether the LIMIT clause takes part in the DELETE
\* statement depends on the database driver the build uses.
StartSweep(limited) ==
    /\ sweep.pc = "idle"
    /\ sweep' = [sweep EXCEPT !.pc = "running", !.table = 1, !.limited = limited]
    /\ UNCHANGED <<metricTables, managerVars, laterVars, evalVars, notifyVars, hostVars>>

\* One pass of the inner loop on the current table: the DELETE succeeds
DeleteBatch ==
    /\ sweep.pc = "running"
    /\ LET t == SweptTables[sweep.table]
           rows == metricTables[t]
           n == IF sweep.limited /\ Matching(rows) > BatchSize
                THEN BatchSize ELSE Matching(rows)
       IN  \E d \in Deletions(rows, n) :
               /\ metricTables' =
                      [metricTables EXCEPT ![t] = [ts \in Stamps |-> rows[ts] - d[ts]]]
               /\ sweep' =
                      IF n < BatchSize
                      THEN IF sweep.table = Len(SweptTables)
                           THEN [sweep EXCEPT !.pc = "done", !.deleted = @ + n]
                           ELSE [sweep EXCEPT !.table = @ + 1, !.deleted = @ + n]
                      ELSE [sweep EXCEPT !.deleted = @ + n]
    /\ UNCHANGED <<managerVars, laterVars, evalVars, notifyVars, hostVars>>

\* One pass of the inner loop: the DELETE fails, the sweep returns the error
DeleteFails ==
    /\ sweep.pc = "running"
    /\ sweep' = [sweep EXCEPT !.pc = "failed"]
    /\ UNCHANGED <<metricTables, managerVars, laterVars, evalVars, notifyVars, hostVars>>

\* The contents of the store before a sweep: one table holds any rows, the
\* others hold the same number of rows at every timestamp
SweepInit ==
    /\ ManagerIdle /\ EvalIdle /\ NotifierStart /\ HostStart /\ LaterIdle
    /\ sweep = [pc |-> "idle", table |-> 1, limited |-> TRUE, deleted |-> 0]
    /\ \E f \in Tables, fill \in {0, 1}, rows \in [Stamps -> 0..MaxRows] :
           metricTables = [t \in Tables |->
                              IF t = f THEN rows ELSE [ts \in Stamps |-> fill]]

SweepNext ==
    \/ \E limited \in BOOLEAN : StartSweep(limited)
    \/ DeleteBatch
    \/ DeleteFails

SweepSpec == SweepInit /\ [][SweepNext]_vars

\* C18: no step of a sweep changes the number of samples of any table whose
\* timestamp is at or after the cutoff.
C18_SweepKeepsSamplesFromCutoff ==
    [][\A t \in Tables, ts \in Stamps :
           ts >= Cutoff => metricTables'[t][ts] = metricTables[t][ts]]_vars

\* A sweep has completed that deleted more rows than one batch holds, and
\* the first table still holds its samples at the cutoff and after it.
C18_Witness ==
    /\ sweep.pc = "done"
    /\ sweep.deleted > BatchSize
    /\ metricTables["cpu"][Cutoff - 1] = 0
    /\ metricTables["cpu"][Cutoff] = MaxRows
    /\ metricTables["cpu"][Cutoff + 1] = 1

\* C19 as stated: after a sweep that completed without error no sample of any
\* kind with a timestamp before the cutoff remains.
C19_SweepLeavesNothingExpired ==
    sweep.pc = "done" =>
        \A t \in Tables, ts \in Stamps : ts < Cutoff => metricTables[t][ts] = 0

----------------------------------------------------------------------------
\* MetricRepo.SaveHostMetric

\* The most SaveHostMetric calls of a behaviour
MaxSaves == 4

\* tx.Where("agent_id = ?", metric.AgentID).Delete(&models.HostMetric{})
DeleteByAgent(rows, a) == {r \in rows : r.AgentID # a}

\* tx.Create(metric)
Create(rows, metric) == rows \cup {metric}

OnErrorKeepsWrites(committed, rows) == rows

\* db.Transaction when the function returns an error: the transaction is
\* rolled back, the table is as it was committed
OnError(committed, rows) == committed

\* SaveHostMetric is called with the next snapshot of probe a: the
\* transaction begins on the committed rows
BeginSave(a) ==
    /\ hostTx.pc = "idle"
    /\ saves < MaxSaves
    /\ saves' = saves + 1
    /\ hostTx' = [pc |-> "delete", agent |-> a, rows |-> hostMetrics, last |-> hostTx.last]
    /\ UNCHANGED <<hostMetrics, lastSaved, managerVars, laterVars, evalVars, notifyVars, sweepVars>>

\* The delete of the prior rows of the probe, inside the transaction
TxDelete(ok) ==
    /\ hostTx.pc = "delete"
    /\ IF ok
       THEN /\ hostTx' = [hostTx EXCEPT !.pc = "create",
                                        !.rows = DeleteByAgent(@, hostTx.agent)]
            /\ UNCHANGED hostMetrics
       ELSE /\ hostMetrics' = OnError(hostMetrics, hostTx.rows)
            /\ hostTx' = [pc |-> "idle", agent |-> "none", rows |-> {},
                          last |-> "delete_failed"]
    /\ UNCHANGED <<lastSaved, saves, managerVars, laterVars, evalVars, notifyVars, sweepVars>>

\* The insert of the new row and the end of the transaction: commit when the
\* insert returned nil, rollback when it returned an error
TxCreate(ok) ==
    /\ hostTx.pc = "create"
    /\ LET metric == [AgentID |-> hostTx.agent, version |-> saves]
       IN  IF ok
           THEN /\ hostMetrics' = Create(hostTx.rows, metric)
                /\ lastSaved' = [lastSaved EXCEPT ![hostTx.agent] = saves]
                /\ hostTx' = [pc |-> "idle", agent |-> "none", rows |-> {},
                              last |-> "committed"]
           ELSE /\ hostMetrics' = OnError(hostMetrics, hostTx.rows)
                /\ hostTx' = [pc |-> "idle", agent |-> "none", rows |-> {},
                              last |-> "create_failed"]
                /\ UNCHANGED lastSaved
    /\ UNCHANGED <<saves, managerVars, laterVars, evalVars, notifyVars, sweepVars>>

HostInit ==
    /\ ManagerIdle /\ EvalIdle /\ NotifierStart /\ SweepStart /\ HostStart /\ LaterIdle

HostNext ==
    \/ \E a \in Probes : BeginSave(a)
    \/ \E ok \in BOOLEAN : TxDelete(ok)
    \/ \E ok \in BOOLEAN : TxCreate(ok)

HostSpec == HostInit /\ [][HostNext]_vars

\* The committed rows of probe a
SnapshotsOf(a) == {r \in hostMetrics : r.AgentID = a}

\* C20: at every moment the table holds, for every probe, no row when no save
\* of the probe has succeeded, and otherwise exactly the row of its last
\* successful save: during a save, after a failed delete or insert, and
\* after saves of other probes.
C20_OneLatestSnapshotPerProbe ==
    \A a \in Probes :
        SnapshotsOf(a) = IF lastSaved[a] = 0 THEN {}
                         ELSE {[AgentID |-> a, version |-> lastSaved[a]]}

\* Probe p1 was saved twice, probe p2 once in between, and the insert of a
\* third save of p1 has just failed: the table holds the second snapshot
\* of p1 and the snapshot of p2.
C20_Witness ==
    /\ saves = 4
    /\ hostTx.pc = "idle" /\ hostTx.last = "create_failed"
    /\ lastSaved = [a \in Probes |-> IF a = "p1" THEN 3 ELSE 2]
    /\ hostMetrics = {[AgentID |-> "p1", version |-> 3], [AgentID |-> "p2", version |-> 2]}

----------------------------------------------------------------------------
\* The close race of SendToClient and the tick of the supervisor

\* C27: the enqueue attempt of SendTo is never made on a send queue that is
\* already closed, whatever the supervisor did between the lookup and the
\* attempt, and it never crashes the caller.
C27_SendToNeverOnClosedQueue ==
    [][SendToAttempts => ~sendClosed[sendTo.client] /\ crashed' = "none"]_vars

\* C28: while the server runs, a tick that has started completes: the
\* supervisor is back at its select.
C28_TickCompletes ==
    [](crashed = "none" /\ ~ctxDone) => (mgrPc = "tick" ~> mgrPc = "select")

----------------------------------------------------------------------------
\* convertToMetrics and createMetric

\* The kinds whose body is one struct
SingleKinds == {"cpu", "memory", "network_conn"}

\* The kinds whose body is a list of items
ListKinds == {"disk", "network", "disk_io", "gpu", "temperature", "monitor"}

\* The kinds the switch has a case for
Kinds == SingleKinds \cup ListKinds

\* Kinds the switch has no case for
OtherKinds == {"load", "host", "unknown"}

\* The most items of a list body
MaxItems == 2

\* The texts of the label fields of the items
Texts == {"x", "y"}

\* The numbers the value fields of the items are built from
Seeds == {0, 10}

\* The device indexes of the GPUs
Indexes == {0, 1}

\* The timestamps of the calls
Times == {1000, 2000}

\* uint64 arithmetic, at the scale of the model: the byte rates of the model
\* are as far from the modulus as byte rates are from 2^64
Uint64Modulus == 1024

CPUData(v) == [UsagePercent |-> v, LogicalCores |-> v + 1, PhysicalCores |-> v + 2]

MemoryData(v) ==
    [UsagePercent |-> v, Total |-> v + 1, Used |-> v + 2, Available |-> v + 3,
     SwapTotal |-> v + 4, SwapUsed |-> v + 5]

DiskData(m, v) ==
    [MountPoint |-> m, UsagePercent |-> v, Total |-> v + 1, Used |-> v + 2,
     Free |-> v + 3]

NetworkData(i, v) ==
    [Interface |-> i, BytesSentRate |-> v, BytesRecvRate |-> v + 1,
     BytesSentTotal |-> v + 2, BytesRecvTotal |-> v + 3]

NetworkConnectionData(v) ==
    [Established |-> v, SynSent |-> v + 1, SynRecv |-> v + 2, TimeWait |-> v + 3,
     CloseWait |-> v + 4, Total |-> v + 5]

DiskIOData(d, r, w) == [Device |-> d, ReadBytesRate |-> r, WriteBytesRate |-> w]

GPUData(i, n, v) ==
    [Index |-> i, Name |-> n, Utilization |-> v, MemoryTotal |-> v + 1,
     MemoryUsed |-> v + 2, Temperature |-> v + 3, PowerUsage |-> v + 4]

TemperatureData(t, v) == [Type |-> t, Temperature |-> v]

MonitorData(id, target, v) ==
    [MonitorId |-> id, Type |-> "http", Target |-> target, ResponseTime |-> v]

\* The items a body of kind k is made of
Items(k) ==
    CASE k = "cpu" -> {CPUData(v) : v \in Seeds}
      [] k = "memory" -> {MemoryData(v) : v \in Seeds}
      [] k = "network_conn" -> {NetworkConnectionData(v) : v \in Seeds}
      [] k = "disk" -> {DiskData(m, v) : m \in Texts, v \in Seeds}
      [] k = "network" -> {NetworkData(i, v) : i \in Texts, v \in Seeds}
      [] k = "disk_io" -> {DiskIOData("x", r, w) : r \in Seeds, w \in {1, 2}}
      [] k = "gpu" -> {GPUData(i, "x", v) : i \in Indexes, v \in Seeds}
      [] k = "temperature" -> {TemperatureData(t, v) : t \in Texts, v \in Seeds}
      [] k = "monitor" -> {MonitorData(id, t, 10) : id \in Texts, t \in Texts}

\* The sequences of at most n elements of S
SeqUpTo(S, n) == UNION {[1..m -> S] : m \in 0..n}

\* The values a data argument can have: for each kind the body of its type,
\* a pointer to one struct or a slice of items
Bodies ==
    UNION {{[type |-> k, items |-> <<i>>] : i \in Items(k)} : k \in SingleKinds}
    \cup UNION {{[type |-> k, items |-> q] : q \in SeqUpTo(Items(k), MaxItems)} :
                   k \in ListKinds}

\* A map[string]string without entries
NoLabels == [k \in {} |-> ""]

\* fmt.Sprintf("%d", i)
FormatInt(i) == CASE i = 0 -> "0" [] i = 1 -> "1" [] i = 2 -> "2" [] OTHER -> "?"

\* createMetric: the labels __name__ and agent_id, then the extra labels
\* assigned over them, one value, one timestamp
createMetric(metricName, agentID, extraLabels, value, timestamp) ==
    [Metric |-> extraLabels @@ ("__name__" :> metricName) @@ ("agent_id" :> agentID),
     Values |-> <<value>>,
     Timestamps |-> <<timestamp>>]

\* The metric names of each kind, in the order of the createMetric calls, each
\* with the field of the item its value is taken from
FieldsOfKind(k) ==
    CASE k = "cpu" ->
           << <<"pika_cpu_usage_percent", "UsagePercent">>,
              <<"pika_cpu_cores_logical", "LogicalCores">>,
              <<"pika_cpu_cores_physical", "PhysicalCores">> >>
      [] k = "memory" ->
           << <<"pika_memory_usage_percent", "UsagePercent">>,
              <<"pika_memory_total_bytes", "Total">>,
              <<"pika_memory_used_bytes", "Used">>,
              <<"pika_memory_available_bytes", "Available">>,
              <<"pika_memory_swap_total_bytes", "SwapTotal">>,
              <<"pika_memory_swap_used_bytes", "SwapUsed">> >>
      [] k = "disk" ->
           << <<"pika_disk_usage_percent", "UsagePercent">>,
              <<"pika_disk_total_bytes", "Total">>,
              <<"pika_disk_used_bytes", "Used">>,
              <<"pika_disk_free_bytes", "Free">> >>
      [] k = "network" ->
           << <<"pika_network_sent_bytes_rate", "BytesSentRate">>,
              <<"pika_network_recv_bytes_rate", "BytesRecvRate">>,
              <<"pika_network_sent_bytes_total", "BytesSentTotal">>,
              <<"pika_network_recv_bytes_total", "BytesRecvTotal">> >>
      [] k = "network_conn" ->
           << <<"pika_network_conn_established", "Established">>,
              <<"pika_network_conn_syn_sent", "SynSent">>,
              <<"pika_network_conn_syn_recv", "SynRecv">>,
              <<"pika_network_conn_time_wait", "TimeWait">>,
              <<"pika_network_conn_close_wait", "CloseWait">>,
              <<"pika_network_conn_total", "Total">> >>
      [] k = "disk_io" ->
           << <<"pika_disk_read_bytes_rate", "ReadBytesRate">>,
              <<"pika_disk_write_bytes_rate", "WriteBytesRate">> >>
      [] k = "gpu" ->
           << <<"pika_gpu_utilization_percent", "Utilization">>,
              <<"pika_gpu_memory_total_bytes", "MemoryTotal">>,
              <<"pika_gpu_memory_used_bytes", "MemoryUsed">>,
              <<"pika_gpu_temperature_celsius", "Temperature">>,
              <<"pika_gpu_power_draw_watts", "PowerUsage">> >>
      [] k = "temperature" -> << <<"pika_temperature_celsius", "Temperature">> >>
      [] k = "monitor" -> << <<"pika_monitor_response_time_ms", "ResponseTime">> >>

FieldsWithoutCores(k) ==
    IF k = "cpu" THEN SubSeq(FieldsOfKind(k), 1, 2) ELSE FieldsOfKind(k)

\* The createMetric calls of the case of kind k
Fields(k) == FieldsOfKind(k)

ItemLabelsWithAgent(k, item) ==
    IF k = "disk" THEN "agent_id" :> item.MountPoint ELSE NoLabels

\* The labels map built for an item of kind k (nil for the kinds without one)
ItemLabels(k, item) ==
    CASE k = "disk" -> "mount_point" :> item.MountPoint
      [] k = "network" -> "interface" :> item.Interface
      [] k = "gpu" -> ("gpu_index" :> FormatInt(item.Index)) @@ ("gpu_name" :> item.Name)
      [] k = "temperature" -> "sensor_label" :> item.Type
      [] k = "monitor" ->
           ("monitor_id" :> item.MonitorId) @@ ("monitor_type" :> item.Type)
               @@ ("target" :> item.Target)
      [] OTHER -> NoLabels

\* The metrics appended for one item (or for the one struct) of kind k
ItemMetrics(k, agentID, item, timestamp) ==
    [i \in 1..Len(Fields(k)) |->
        createMetric(Fields(k)[i][1], agentID, ItemLabels(k, item),
                     item[Fields(k)[i][2]], timestamp)]

RECURSIVE ForEach(_, _, _, _)
\* for _, item := range list { metrics = append(metrics, ...) }
ForEach(k, agentID, items, timestamp) ==
    IF items = <<>> THEN <<>>
    ELSE ItemMetrics(k, agentID, Head(items), timestamp)
             \o ForEach(k, agentID, Tail(items), timestamp)

RECURSIVE TotalRate(_, _)
\* var total uint64; for ... { total += item.<field> }
TotalRate(items, field) ==
    IF items = <<>> THEN 0
    ELSE (Head(items)[field] + TotalRate(Tail(items), field)) % Uint64Modulus

TotalsPerDevice(agentID, items, timestamp) == ForEach("disk_io", agentID, items, timestamp)

\* The case of disk_io: the rates of all devices summed, two metrics
Totals(agentID, items, timestamp) ==
    [i \in 1..Len(Fields("disk_io")) |->
        createMetric(Fields("disk_io")[i][1], agentID, NoLabels,
                     TotalRate(items, Fields("disk_io")[i][2]), timestamp)]

\* data.(T): the type assertion of a case holds
Asserts(metricType, data) == data.type = metricType

UnhandledEchoed(agentID, timestamp) ==
    <<createMetric("pika_unknown", agentID, NoLabels, 0, timestamp)>>

\* A metricType without a case: metrics stays nil
Unhandled(agentID, timestamp) == <<>>

\* convertToMetrics: the metrics returned, or the panic of a type assertion
convertToMetrics(agentID, metricType, data, timestamp) ==
    IF metricType \notin Kinds
    THEN [panicked |-> FALSE, metrics |-> Unhandled(agentID, timestamp)]
    ELSE IF ~Asserts(metricType, data)
    THEN [panicked |-> TRUE, metrics |-> <<>>]
    ELSE IF metricType = "disk_io"
    THEN [panicked |-> FALSE, metrics |-> Totals(agentID, data.items, timestamp)]
    ELSE [panicked |-> FALSE,
          metrics |-> ForEach(metricType, agentID, data.items, timestamp)]

\* One call of convertToMetrics
Convert(agentID, metricType, data, timestamp) ==
    /\ conv = NoCall
    /\ conv' = [called |-> TRUE, agentID |-> agentID, metricType |-> metricType,
                data |-> data, timestamp |-> timestamp,
                out |-> convertToMetrics(agentID, metricType, data, timestamp)]
    /\ UNCHANGED <<audit, lookup, grouping, migration, managerVars, evalVars,
                   notifyVars, sweepVars, hostVars>>

ConvertInit ==
    /\ ManagerIdle /\ EvalIdle /\ NotifierStart /\ SweepStart /\ HostStart
    /\ LaterIdle

\* Every caller builds the body of the kind it names: a kind with a case comes
\* with the body of its type
WellTyped(metricType, data) == metricType \in Kinds => data.type = metricType

ConvertNext ==
    \E agentID \in Probes, metricType \in Kinds \cup OtherKinds, data \in Bodies,
       timestamp \in Times :
        WellTyped(metricType, data) /\ Convert(agentID, metricType, data, timestamp)

ConvertSpec == ConvertInit /\ [][ConvertNext]_vars

\* The names of the table of section 4.2 for each kind
ListedNames(k) ==
    CASE k = "cpu" -> {"cpu_usage_percent", "cpu_cores_logical", "cpu_cores_physical"}
      [] k = "memory" ->
           {"memory_usage_percent", "memory_total_bytes", "memory_used_bytes",
            "memory_available_bytes", "memory_swap_total_bytes",
            "memory_swap_used_bytes"}
      [] k = "disk" ->
           {"disk_usage_percent", "disk_total_bytes", "disk_used_bytes",
            "disk_free_bytes"}
      [] k = "network" ->
           {"network_sent_bytes_rate", "network_sent_bytes_total",
            "network_recv_bytes_rate", "network_recv_bytes_total"}
      [] k = "network_conn" ->
           {"network_conn_established", "network_conn_syn_sent",
            "network_conn_syn_recv", "network_conn_time_wait",
            "network_conn_close_wait", "network_conn_total"}
      [] k = "disk_io" -> {"disk_read_bytes_rate", "disk_write_bytes_rate"}
      [] k = "gpu" ->
           {"gpu_utilization_percent", "gpu_memory_total_bytes",
            "gpu_memory_used_bytes", "gpu_temperature_celsius",
            "gpu_power_draw_watts"}
      [] k = "temperature" -> {"temperature_celsius"}
      [] k = "monitor" -> {"monitor_response_time_ms"}
      [] OTHER -> {}

\* The call has returned (no panic)
Returned == conv.called /\ ~conv.out.panicked

\* The name of the i-th sample returned
NameOf(i) == conv.out.metrics[i].Metric["__name__"]

\* The number of items the samples are built from: the items of the list, or
\* one for a single struct and for the summed disk_io
Units ==
    IF conv.metricType \in ListKinds \ {"disk_io"} THEN Len(conv.data.items) ELSE 1

\* Every item yields exactly the names of the set S, in some order
NamesPerItem(S) ==
    /\ Len(conv.out.metrics) = Units * Cardinality(S)
    /\ \A u \in 1..Units :
           {NameOf(i) : i \in ((u - 1) * Cardinality(S) + 1)..(u * Cardinality(S))} = S

\* C21 as stated: every name returned is one of the names listed in section
\* 4.2, and each kind yields exactly the names listed for it.
C21_NamesAsListed ==
    Returned =>
        /\ \A i \in 1..Len(conv.out.metrics) :
               NameOf(i) \in UNION {ListedNames(k) : k \in Kinds}
        /\ conv.metricType \in Kinds => NamesPerItem(ListedNames(conv.metricType))

\* C21 amended: every name returned is pika_ followed by one of the names
\* listed in section 4.2, and each kind yields, for every item of the body
\* (once for a single struct and for disk_io), exactly the names listed for
\* it with that prefix.
C21_NamesAsListedWithPrefix ==
    Returned =>
        /\ \A i \in 1..Len(conv.out.metrics) :
               NameOf(i) \in {"pika_" \o n : n \in UNION {ListedNames(k) : k \in Kinds}}
        /\ conv.metricType \in Kinds =>
               NamesPerItem({"pika_" \o n : n \in ListedNames(conv.metricType)})

\* A gpu body with two devices has been converted into ten samples.
C21_Witness ==
    /\ Returned
    /\ conv.metricType = "gpu"
    /\ Len(conv.data.items) = 2
    /\ Len(conv.out.metrics) = 10
    /\ NameOf(10) = "pika_gpu_power_draw_watts"

\* C22: every sample returned carries the label agent_id with the probe id
\* of the call as its value, whatever labels the kind adds, and exactly one
\* value and one timestamp, the timestamp of the call.
C22_AgentIdAndOneStampedValue ==
    Returned =>
        \A i \in 1..Len(conv.out.metrics) :
            LET m == conv.out.metrics[i]
            IN  /\ "agent_id" \in DOMAIN m.Metric
                /\ m.Metric["agent_id"] = conv.agentID
                /\ Len(m.Values) = 1
                /\ m.Timestamps = <<conv.timestamp>>

\* A disk body with two mounts has been converted for probe p2: the last
\* sample carries the mount point of the second item and the probe id.
C22_Witness ==
    /\ Returned
    /\ conv.metricType = "disk" /\ conv.agentID = "p2"
    /\ Len(conv.data.items) = 2
    /\ LET m == conv.out.metrics[8]
       IN  /\ m.Metric["mount_point"] = conv.data.items[2].MountPoint
           /\ m.Metric["agent_id"] = "p2"
           /\ m.Values = <<conv.data.items[2].Free>>

C25_DiskIOSummed ==
    (Returned /\ conv.metricType = "disk_io") =>
        LET items == conv.data.items
            sum(field) == SumOver([i \in 1..Len(items) |-> items[i][field]], 1..Len(items))
            m == conv.out.metrics
        IN  /\ Len(m) = 2
            /\ m[1].Metric["__name__"] = "pika_disk_read_bytes_rate"
            /\ m[1].Values = <<sum("ReadBytesRate")>>
            /\ m[2].Metric["__name__"] = "pika_disk_write_bytes_rate"
            /\ m[2].Values = <<sum("WriteBytesRate")>>
            /\ \A i \in 1..2 : DOMAIN m[i].Metric = {"__name__", "agent_id"}

\* Two devices with different write rates have been converted into the two
\* sums.
C25_Witness ==
    /\ Returned /\ conv.metricType = "disk_io"
    /\ Len(conv.data.items) = 2
    /\ conv.data.items[1].ReadBytesRate = 10 /\ conv.data.items[2].ReadBytesRate = 10
    /\ conv.data.items[1].WriteBytesRate = 1 /\ conv.data.items[2].WriteBytesRate = 2
    /\ conv.out.metrics[1].Values = <<20>>
    /\ conv.out.metrics[2].Values = <<3>>

----------------------------------------------------------------------------
\* Auditor.calculateRiskScore with DefaultConfig

\* The most security checks of an audit and the most details of a check
MaxChecks == 2
MaxDetails == 2

\* ScoringConfig.Weights of DefaultConfig, for the categories of the model
Weights ==
    [rootkit_detection |-> [FailScore |-> 50, WarnScore |-> 20],
     ssh_security |-> [FailScore |-> 15, WarnScore |-> 5]]

\* The weight of a category without an entry in Weights
FallbackWeight == [FailScore |-> 20, WarnScore |-> 5]

CriticalThreshold == 80
HighThreshold == 50
MediumThreshold == 20
MaxRecommendations == 20

\* The categories of the checks: every check of the auditor has an entry in
\* the weights of DefaultConfig
Categories == DOMAIN Weights

\* The status of a detail
Statuses == {"pass", "warn", "fail"}

\* The lists of security checks
CheckLists ==
    SeqUpTo([Category : Categories, Details : SeqUpTo([Status : Statuses], MaxDetails)],
            MaxChecks)

\* weight, exists := Weights[check.Category]; if !exists { weight = default }
WeightOf(category) ==
    IF category \in DOMAIN Weights THEN Weights[category] ELSE FallbackWeight

RECURSIVE ScoreDetails(_, _)
\* for _, detail := range check.Details { switch detail.Status ... }
ScoreDetails(weight, details) ==
    IF details = <<>> THEN [score |-> 0, recommendations |-> 0]
    ELSE LET rest == ScoreDetails(weight, Tail(details))
             status == Head(details).Status
         IN  CASE status = "fail" ->
                    [score |-> weight.FailScore + rest.score,
                     recommendations |-> 1 + rest.recommendations]
               [] status = "warn" ->
                    [score |-> weight.WarnScore + rest.score,
                     recommendations |-> 1 + rest.recommendations]
               [] OTHER -> rest

RECURSIVE ScoreChecks(_)
\* for _, check := range checks { ... }
ScoreChecks(checks) ==
    IF checks = <<>> THEN [score |-> 0, recommendations |-> 0]
    ELSE LET c == Head(checks)
             one == ScoreDetails(WeightOf(c.Category), c.Details)
             rest == ScoreChecks(Tail(checks))
         IN  [score |-> one.score + rest.score,
              recommendations |-> one.recommendations + rest.recommendations]

Uncapped(score) == score

\* if score > 100 { score = 100 }
Capped(score) == IF score > 100 THEN 100 ELSE score

\* The switch on the thresholds
ThreatLevel(score) ==
    CASE score >= CriticalThreshold -> "critical"
      [] score >= HighThreshold -> "high"
      [] score >= MediumThreshold -> "medium"
      [] OTHER -> "low"

\* calculateRiskScore: the score, the level and the number of recommendations
calculateRiskScore(checks) ==
    LET sum == ScoreChecks(checks)
        score == Capped(sum.score)
    IN  [score |-> score, level |-> ThreatLevel(score),
         recommendations |-> Min(sum.recommendations, MaxRecommendations)]

\* One audit: the score of a list of checks
RunAudit(checks) ==
    /\ audit = NoCall
    /\ audit' = [called |-> TRUE, checks |-> checks, out |-> calculateRiskScore(checks)]
    /\ UNCHANGED <<conv, lookup, grouping, migration, managerVars, evalVars,
                   notifyVars, sweepVars, hostVars>>

AuditInit ==
    /\ ManagerIdle /\ EvalIdle /\ NotifierStart /\ SweepStart /\ HostStart
    /\ LaterIdle

AuditNext == \E checks \in CheckLists : RunAudit(checks)

AuditSpec == AuditInit /\ [][AuditNext]_vars

\* The details of all checks that have the status s and the category c
CountOf(c, s) ==
    LET n(i) == Cardinality({j \in 1..Len(audit.checks[i].Details) :
                                audit.checks[i].Details[j].Status = s})
    IN  SumOver([i \in 1..Len(audit.checks) |->
                    IF audit.checks[i].Category = c THEN n(i) ELSE 0],
                1..Len(audit.checks))

\* The sum of the fail and warn weights over all details
WeightSum ==
    CountOf("rootkit_detection", "fail") * 50 + CountOf("rootkit_detection", "warn") * 20
        + CountOf("ssh_security", "fail") * 15 + CountOf("ssh_security", "warn") * 5

\* C24: the score of every list of checks is within 0..100: it is the sum of
\* the fail and warn weights over all details, or 100 when the sum is larger;
\* the level is critical from 80, high from 50, medium from 20, low below.
C24_ScoreCappedAndLevelled ==
    audit.called =>
        /\ audit.out.score \in 0..100
        /\ audit.out.score = IF WeightSum > 100 THEN 100 ELSE WeightSum
        /\ audit.out.level =
               IF audit.out.score >= 80 THEN "critical"
               ELSE IF audit.out.score >= 50 THEN "high"
               ELSE IF audit.out.score >= 20 THEN "medium"
               ELSE "low"

\* Two rootkit checks with three failed details and one warning: the weights
\* add up to 170, the score is 100 and the level critical.
C24_Witness ==
    /\ audit.called
    /\ WeightSum = 170
    /\ audit.out.score = 100
    /\ audit.out.level = "critical"

----------------------------------------------------------------------------
\* AlertRepo.GetLatestAlertRecord

\* The most rows of the alert_records table
MaxRecords == 2

\* The alert configs (rules); each covers both probes
ConfigIds == {"c1", "c2"}

\* The values of fired_at
FiredTimes == {1, 2}

\* The contents of the alert_records table; the ID of a row is its position
RecordTables ==
    SeqUpTo([AgentID : Probes, ConfigID : ConfigIds, AlertType : {"cpu"},
             Status : {"firing", "resolved"}, FiredAt : FiredTimes], MaxRecords)

MatchesWithAgent(r, agentID, configID, alertType) ==
    /\ r.AgentID = agentID
    /\ r.ConfigID = configID /\ r.AlertType = alertType /\ r.Status = "firing"

\* Where("config_id = ? AND alert_type = ? AND status = ?", configID, alertType, "firing")
Matches(r, agentID, configID, alertType) ==
    r.ConfigID = configID /\ r.AlertType = alertType /\ r.Status = "firing"

\* Order("fired_at DESC").First(&record): the rows that can come first
Latest(table, agentID, configID, alertType) ==
    LET hits == {i \in 1..Len(table) : Matches(table[i], agentID, configID, alertType)}
    IN  {i \in hits : \A j \in hits : table[j].FiredAt <= table[i].FiredAt}

\* The state of (agentID, configID, alertType) is rebuilt: one call of
\* GetLatestAlertRecord(configID, alertType); it returns a row, or the error
\* of First when no row matches
GetLatestAlertRecord(table, agentID, configID, alertType) ==
    /\ lookup = NoCall
    /\ LET first == Latest(table, agentID, configID, alertType)
       IN  IF first = {}
           THEN lookup' = [called |-> TRUE, table |-> table, agentID |-> agentID,
                           configID |-> configID, alertType |-> alertType,
                           found |-> FALSE, id |-> 0]
           ELSE \E i \in first :
                    lookup' = [called |-> TRUE, table |-> table, agentID |-> agentID,
                               configID |-> configID, alertType |-> alertType,
                               found |-> TRUE, id |-> i]
    /\ UNCHANGED <<conv, audit, grouping, migration, managerVars, evalVars,
                   notifyVars, sweepVars, hostVars>>

LookupInit ==
    /\ ManagerIdle /\ EvalIdle /\ NotifierStart /\ SweepStart /\ HostStart
    /\ LaterIdle

LookupNext ==
    \E table \in RecordTables, agentID \in Probes, configID \in ConfigIds :
        GetLatestAlertRecord(table, agentID, configID, "cpu")

LookupSpec == LookupInit /\ [][LookupNext]_vars

\* C26: the record returned for the rebuild of the state of a (probe, rule,
\* kind) is a firing record of that probe, rule and kind, and none of the
\* firing records of that probe, rule and kind is more recent.
C26_LatestFiringOfSameProbe ==
    (lookup.called /\ lookup.found) =>
        LET r == lookup.table[lookup.id]
        IN  /\ r.AgentID = lookup.agentID
            /\ r.ConfigID = lookup.configID
            /\ r.AlertType = lookup.alertType
            /\ r.Status = "firing"
            /\ \A j \in 1..Len(lookup.table) :
                   MatchesWithAgent(lookup.table[j], lookup.agentID, lookup.configID,
                                    lookup.alertType)
                       => lookup.table[j].FiredAt <= r.FiredAt

----------------------------------------------------------------------------
\* The grouping of the rows of a batch in the migration of the per-item kinds
\* (migrateDiskMetrics); strings are sequences of characters

\* batchSize, 1000 in the source: the most rows of one batch
batchSize == 2

\* The agent ids of the rows
AgentIds == {<<"a">>, <<"b">>, <<"a", "7">>}

\* The timestamps of the rows
RowTimes == {5, 12}

\* The rows of the disk_metrics table a batch is made of
DiskRows ==
    [AgentID : AgentIds, Timestamp : RowTimes, Data : {DiskData(m, 0) : m \in Texts}]

DigitChars == <<"0", "1", "2", "3", "4", "5", "6", "7", "8", "9">>

\* %d of a number below 100
FormatDecimal(n) ==
    IF n < 10 THEN <<DigitChars[n + 1]>>
    ELSE <<DigitChars[(n \div 10) + 1], DigitChars[(n % 10) + 1]>>

\* fmt.Sprintf("%s_%d", m.AgentID, m.Timestamp)
SprintfKey(agentID, timestamp) == agentID \o <<"_">> \o FormatDecimal(timestamp)

RECURSIVE ScanToken(_)
\* The verb %s of Sscanf: the characters up to the next space or the end
ScanToken(s) ==
    IF s = <<>> \/ Head(s) = " " THEN <<>> ELSE <<Head(s)>> \o ScanToken(Tail(s))

DigitValue(ch) == CHOOSE d \in 0..9 : DigitChars[d + 1] = ch

IsDigit(ch) == \E d \in 0..9 : DigitChars[d + 1] = ch

RECURSIVE ScanDecimal(_, _)
\* The verb %d of Sscanf: the digits at the start of s, as a number
ScanDecimal(s, acc) ==
    IF s = <<>> \/ ~IsDigit(Head(s)) THEN acc
    ELSE ScanDecimal(Tail(s), acc * 10 + DigitValue(Head(s)))

\* fmt.Sscanf(key, "%s_%d", &agentID, &timestamp) with its error ignored:
\* agentID takes the token, and timestamp is assigned only when the text
\* after the token goes on with "_"; otherwise it keeps its zero value
SscanfKey(key) ==
    LET token == ScanToken(key)
        rest == SubSeq(key, Len(token) + 1, Len(key))
    IN  IF rest # <<>> /\ Head(rest) = "_"
        THEN [agentID |-> token, timestamp |-> ScanDecimal(Tail(rest), 0)]
        ELSE [agentID |-> token, timestamp |-> 0]

\* groupedMetrics[key] = append(groupedMetrics[key], ...): the rows of the
\* batch with that key, in their order
GroupOf(rows, key) ==
    SelectSeq(rows, LAMBDA r : SprintfKey(r.AgentID, r.Timestamp) = key)

\* One batch: the rows are grouped by key, and each group is converted with
\* the agent id and the timestamp read back from its key
MigrateBatch(rows) ==
    /\ grouping = NoCall
    /\ grouping' =
           [called |-> TRUE, rows |-> rows,
            groups |->
                {LET decoded == SscanfKey(key)
                     group == GroupOf(rows, key)
                 IN  [key |-> key, rows |-> group,
                      agentID |-> decoded.agentID, timestamp |-> decoded.timestamp,
                      metrics |->
                          convertToMetrics(decoded.agentID, "disk",
                              [type |-> "disk",
                               items |-> [i \in 1..Len(group) |-> group[i].Data]],
                              decoded.timestamp).metrics] :
                 key \in {SprintfKey(rows[i].AgentID, rows[i].Timestamp) :
                              i \in 1..Len(rows)}}]
    /\ UNCHANGED <<conv, audit, lookup, migration, managerVars, evalVars,
                   notifyVars, sweepVars, hostVars>>

GroupingInit ==
    /\ ManagerIdle /\ EvalIdle /\ NotifierStart /\ SweepStart /\ HostStart
    /\ LaterIdle

GroupingNext == \E rows \in SeqUpTo(DiskRows, batchSize) : MigrateBatch(rows)

GroupingSpec == GroupingInit /\ [][GroupingNext]_vars

\* C29: the agent id and the timestamp read back from the key of a group are
\* those of the rows of the group, and every sample built from the group
\* carries that agent id and that timestamp.
C29_KeyRoundTrip ==
    grouping.called =>
        \A g \in grouping.groups :
            \A i \in 1..Len(g.rows) :
                /\ g.agentID = g.rows[i].AgentID
                /\ g.timestamp = g.rows[i].Timestamp
                /\ \A j \in 1..Len(g.metrics) :
                       /\ g.metrics[j].Metric["agent_id"] = g.rows[i].AgentID
                       /\ g.metrics[j].Timestamps = <<g.rows[i].Timestamp>>

----------------------------------------------------------------------------
\* The migration command: runMigration, Migrate, the migrate functions of the
\* kinds and DropOldTables

\* The most batches of a table
MaxBatches == 2

\* The migration with the tuple of its other variables unchanged
MigrationFrame ==
    UNCHANGED <<conv, audit, lookup, grouping, managerVars, evalVars, notifyVars,
                sweepVars, hostVars>>

\* The next task of Migrate, or its end
NextTask(m) ==
    IF m.task = Len(MigrationTasks)
    THEN [m EXCEPT !.pc = "return"]
    ELSE [m EXCEPT !.pc = "count", !.task = @ + 1, !.offset = 0]

WriteErrorReturned(m) == NextTask([m EXCEPT !.errors = @ + 1, !.lost = TRUE])

\* if err := client.Write(ctx, vmMetrics); err != nil { log.Printf(warning) }:
\* the batch is lost and the loop goes on with the next offset
WriteErrorLogged(m) == [m EXCEPT !.pc = "find", !.offset = @ + 1, !.lost = TRUE]

\* runMigration reads the answer and calls Migrate; every table holds the
\* same number of batches
StartMigration(answer, batches) ==
    /\ migration.pc = "idle"
    /\ migration' = [migration EXCEPT !.pc = "count", !.deleteOldTables = answer,
                                      !.batches = batches]
    /\ MigrationFrame

\* db.Model(...).Count(&totalCount): an error is returned to Migrate, which
\* records it and goes on; an empty table ends the task
CountRows(ok) ==
    /\ migration.pc = "count"
    /\ migration' =
           IF ~ok THEN NextTask([migration EXCEPT !.errors = @ + 1])
           ELSE IF migration.batches = 0 THEN NextTask(migration)
           ELSE [migration EXCEPT !.pc = "find"]
    /\ MigrationFrame

\* db.Offset(offset).Limit(batchSize).Find(&metrics): an error is returned to
\* Migrate; no rows end the task; otherwise the rows are converted
FindBatch(ok) ==
    /\ migration.pc = "find"
    /\ migration' =
           IF ~ok THEN NextTask([migration EXCEPT !.errors = @ + 1])
           ELSE IF migration.offset = migration.batches THEN NextTask(migration)
           ELSE [migration EXCEPT !.pc = "write"]
    /\ MigrationFrame

\* client.Write(ctx, vmMetrics)
WriteBatch(ok) ==
    /\ migration.pc = "write"
    /\ migration' =
           IF ok THEN [migration EXCEPT !.pc = "find", !.offset = @ + 1]
           ELSE WriteErrorLogged(migration)
    /\ MigrationFrame

\* Migrate returns: with an error when a task returned one, and then
\* runMigration ends in log.Fatalf; otherwise runMigration goes on to the
\* user's choice
MigrateReturns ==
    /\ migration.pc = "return"
    /\ migration' =
           IF migration.errors > 0 THEN [migration EXCEPT !.pc = "fatal"]
           ELSE IF migration.deleteOldTables THEN [migration EXCEPT !.pc = "drop"]
           ELSE [migration EXCEPT !.pc = "kept"]
    /\ MigrationFrame

\* DropOldTables: every old table is dropped, except those whose DropTable
\* fails, which is logged
DropOldTables(failed) ==
    /\ migration.pc = "drop"
    /\ migration' = [migration EXCEPT !.pc = "dropped", !.tables = failed]
    /\ MigrationFrame

MigrationInit ==
    /\ ManagerIdle /\ EvalIdle /\ NotifierStart /\ SweepStart /\ HostStart
    /\ LaterIdle

MigrationNext ==
    \/ \E answer \in BOOLEAN, batches \in 0..MaxBatches : StartMigration(answer, batches)
    \/ \E ok \in BOOLEAN : CountRows(ok)
    \/ \E ok \in BOOLEAN : FindBatch(ok)
    \/ \E ok \in BOOLEAN : WriteBatch(ok)
    \/ MigrateReturns
    \/ \E failed \in SUBSET OldTables : DropOldTables(failed)

MigrationSpec == MigrationInit /\ [][MigrationNext]_vars

\* C30: an old table is dropped only when the user asked for it and every
\* batch of every kind was written; once the write of a batch has failed the
\* migration does not end as successful.
C30_DropOnlyAfterCompleteMigration ==
    /\ migration.tables # OldTables => migration.deleteOldTables /\ ~migration.lost
    /\ migration.lost => migration.pc \notin {"drop", "dropped", "kept"}

====
